---- MODULE Spec2Model ----
(***************************************************************************)
(* Model of the sales dashboard's data pipeline (src/nucleo, src/app.py):  *)
(* column normalisation, schema validation, CSV loading, cleaning, metric  *)
(* derivation, filtering and period comparison.                            *)
(*                                                                         *)
(* A table (pandas DataFrame) is a record                                  *)
(*   [columnas |-> sequence of column names,                               *)
(*    indice   |-> sequence of row labels (the pandas index),              *)
(*    filas    |-> sequence of rows, each a tuple aligned with columnas]   *)
(* A column name is a sequence of one-character strings, so that the       *)
(* normaliser's string handling is computed and not assumed.               *)
(* A cell is a record [t |-> kind, v |-> payload]:                         *)
(*   num      a number as read from the file                               *)
(*   txt      text that is neither a number nor a date                     *)
(*   fechatxt text that pandas parses as the day number v                  *)
(*   fecha    a Timestamp (day number v)                                   *)
(*   nan/nat  missing value / missing date                                 *)
(*   str      a categorical string                                         *)
(*   frac     an exact fraction, v = <<numerator, denominator>>            *)
(* Days are integers (one unit = one calendar day).                        *)
(***************************************************************************)
EXTENDS Integers, Sequences, FiniteSets, TLC

\* ------------------------------------------------------------------ bounds
\* ConfiguracionAplicacion.max_filas_csv as injected into the validator
\* (the model injects a small ceiling; raw files hold up to one row more).
max_filas_csv == 2
\* days that occur in the data and in the user's date selection: 1..MaxDia
MaxDia == 3
\* magnitudes handed to comparar_metricas: -MaxValor..MaxValor
MaxValor == 3
\* the largest forecast horizon (dias_futuros) tried
MaxHorizonte == 2

\* ------------------------------------------------------------------ cells
Num(n) == [t |-> "num", v |-> n]
Txt(s) == [t |-> "txt", v |-> s]
FechaTxt(d) == [t |-> "fechatxt", v |-> d]
Fecha(d) == [t |-> "fecha", v |-> d]
Str(s) == [t |-> "str", v |-> s]
NaN == [t |-> "nan", v |-> 0]
NaT == [t |-> "nat", v |-> 0]
None == [t |-> "none", v |-> 0]

\* ------------------------------------------------------ generic sequences
SeqsUpTo(S, n) == UNION {[1..k -> S] : k \in 0..n}

Range(s) == {s[i] : i \in DOMAIN s}

\* s[mask]: the subsequence of s at the positions from i on where mask is
\* TRUE (boolean indexing)
RECURSIVE SelectIdx(_, _, _)
SelectIdx(s, mask, i) ==
    IF i > Len(s) THEN <<>>
    ELSE (IF mask[i] THEN <<s[i]>> ELSE <<>>) \o SelectIdx(s, mask, i + 1)

\* ------------------------------------------------------------ column names
n_fecha == <<"f", "e", "c", "h", "a">>
n_id_orden == <<"i", "d", "_", "o", "r", "d", "e", "n">>
n_id_cliente == <<"i", "d", "_", "c", "l", "i", "e", "n", "t", "e">>
n_id_producto == <<"i", "d", "_", "p", "r", "o", "d", "u", "c", "t", "o">>
n_cantidad == <<"c", "a", "n", "t", "i", "d", "a", "d">>
n_precio == <<"p", "r", "e", "c", "i", "o">>
n_costo == <<"c", "o", "s", "t", "o">>
n_region == <<"r", "e", "g", "i", "o", "n">>
n_canal == <<"c", "a", "n", "a", "l">>
n_estado == <<"e", "s", "t", "a", "d", "o">>
n_categoria == <<"c", "a", "t", "e", "g", "o", "r", "i", "a">>
n_nombre_producto ==
    <<"n", "o", "m", "b", "r", "e", "_", "p", "r", "o", "d", "u", "c", "t", "o">>
n_ingresos == <<"i", "n", "g", "r", "e", "s", "o", "s">>
n_costo_total == <<"c", "o", "s", "t", "o", "_", "t", "o", "t", "a", "l">>
n_margen == <<"m", "a", "r", "g", "e", "n">>
n_margen_porcentaje ==
    <<"m", "a", "r", "g", "e", "n", "_", "p", "o", "r", "c", "e", "n", "t", "a", "j", "e">>

\* EsquemaDatosVentas.esquema_por_defecto
columnas_requeridas ==
    <<n_fecha, n_id_orden, n_id_cliente, n_id_producto, n_cantidad,
      n_precio, n_costo, n_region, n_canal>>

columnas_opcionales == <<n_estado, n_categoria, n_nombre_producto>>

\* alias -> standard name, as a set of pairs (a Python dict)
alias_a_estandar ==
    { <<<<"d", "a", "t", "e">>, n_fecha>>,
      <<n_fecha, n_fecha>>,
      <<<<"o", "r", "d", "e", "r", "_", "i", "d">>, n_id_orden>>,
      <<n_id_orden, n_id_orden>>,
      <<<<"c", "u", "s", "t", "o", "m", "e", "r", "_", "i", "d">>, n_id_cliente>>,
      <<n_id_cliente, n_id_cliente>>,
      <<<<"p", "r", "o", "d", "u", "c", "t", "_", "i", "d">>, n_id_producto>>,
      <<n_id_producto, n_id_producto>>,
      <<<<"q", "t", "y">>, n_cantidad>>,
      <<n_cantidad, n_cantidad>>,
      <<<<"p", "r", "i", "c", "e">>, n_precio>>,
      <<n_precio, n_precio>>,
      <<<<"c", "o", "s", "t">>, n_costo>>,
      <<n_costo, n_costo>>,
      <<n_region, n_region>>,
      <<<<"r", "e", "g", "i", "ó", "n">>, n_region>>,
      <<n_canal, n_canal>>,
      <<<<"c", "h", "a", "n", "n", "e", "l">>, n_canal>> }

\* ------------------------------------------------------------------ tables
TablaVacia == [columnas |-> <<>>, indice |-> <<>>, filas |-> <<>>]

TieneColumna(tabla, nombre) == nombre \in Range(tabla.columnas)

\* position of the column called nombre (the table has it)
IndiceColumna(tabla, nombre) ==
    CHOOSE i \in DOMAIN tabla.columnas :
        /\ tabla.columnas[i] = nombre
        /\ \A j \in 1..(i - 1) : tabla.columnas[j] # nombre

\* tabla[nombre]: the column's cells, row by row
Columna(tabla, nombre) ==
    LET c == IndiceColumna(tabla, nombre)
    IN  [k \in DOMAIN tabla.filas |-> tabla.filas[k][c]]

\* tabla[mask]: a new table holding the rows where mask is TRUE
FilasDonde(tabla, mask) ==
    [columnas |-> tabla.columnas,
     indice |-> SelectIdx(tabla.indice, mask, 1),
     filas |-> SelectIdx(tabla.filas, mask, 1)]

\* the table with column nombre set to valores (added at the end when new)
ConColumna(tabla, nombre, valores) ==
    IF TieneColumna(tabla, nombre)
    THEN LET c == IndiceColumna(tabla, nombre)
         IN  [tabla EXCEPT !.filas =
                 [k \in DOMAIN tabla.filas |->
                     [tabla.filas[k] EXCEPT ![c] = valores[k]]]]
    ELSE [tabla EXCEPT
             !.columnas = Append(tabla.columnas, nombre),
             !.filas = [k \in DOMAIN tabla.filas |->
                           Append(tabla.filas[k], valores[k])]]

\* ----------------------------------------------------- object identity
\* A local variable `tabla` of a pipeline stage: the object the caller holds
\* (orig), the object the local name is bound to (work), and whether they
\* are one and the same object (alias).
CopiarAlias(tabla) == [orig |-> tabla, work |-> tabla, alias |-> TRUE]

\* tabla = tabla.copy()
Copiar(tabla) == [orig |-> tabla, work |-> tabla, alias |-> FALSE]

\* tabla[nombre] = valores (assignment in place on the bound object)
AsignarColumna(m, nombre, valores) ==
    LET nueva == ConColumna(m.work, nombre, valores)
    IN  [orig |-> IF m.alias THEN nueva ELSE m.orig,
         work |-> nueva,
         alias |-> m.alias]

\* tabla = <expression yielding a new object>
Reasignar(m, nueva) == [orig |-> m.orig, work |-> nueva, alias |-> FALSE]

\* ------------------------------------------------------------ normaliser
EsEspacio(c) == c \in {" ", "\t"}

Mayusculas ==
    <<"A", "B", "C", "D", "E", "F", "G", "H", "I", "J", "K", "L", "M", "N",
      "O", "P", "Q", "R", "S", "T", "U", "V", "W", "X", "Y", "Z", "Ó">>

Minusculas ==
    <<"a", "b", "c", "d", "e", "f", "g", "h", "i", "j", "k", "l", "m", "n",
      "o", "p", "q", "r", "s", "t", "u", "v", "w", "x", "y", "z", "ó">>

\* str.lower on one character
Lower(c) ==
    IF c \in Range(Mayusculas)
    THEN Minusculas[CHOOSE i \in DOMAIN Mayusculas : Mayusculas[i] = c]
    ELSE c

RECURSIVE LStrip(_)
LStrip(s) ==
    IF s # <<>> /\ EsEspacio(Head(s)) THEN LStrip(Tail(s)) ELSE s

RECURSIVE RStrip(_)
RStrip(s) ==
    IF s # <<>> /\ EsEspacio(s[Len(s)])
    THEN RStrip(SubSeq(s, 1, Len(s) - 1))
    ELSE s

\* str.strip
Strip(s) == RStrip(LStrip(s))

\* re.sub(r"\s+", " ", s): every maximal run of whitespace becomes one space
RECURSIVE ColapsarEspacios(_)
ColapsarEspacios(s) ==
    IF s = <<>> THEN <<>>
    ELSE IF EsEspacio(Head(s))
         THEN <<" ">> \o ColapsarEspacios(LStrip(s))
         ELSE <<Head(s)>> \o ColapsarEspacios(Tail(s))

\* _limpiar_nombre_columna without the lower-casing
LimpiarNombreColumnaSinLower(nombre) ==
    LET colapsado == ColapsarEspacios(Strip(nombre))
    IN  [i \in DOMAIN colapsado |->
            IF colapsado[i] = " " THEN "_" ELSE colapsado[i]]

\* NormalizadorColumnas._limpiar_nombre_columna
LimpiarNombreColumna(nombre) ==
    LET minus == [i \in DOMAIN Strip(nombre) |-> Lower(Strip(nombre)[i])]
        colapsado == ColapsarEspacios(minus)
    IN  [i \in DOMAIN colapsado |->
            IF colapsado[i] = " " THEN "_" ELSE colapsado[i]]

EnAlias(clave) == \E par \in alias_a_estandar : par[1] = clave

Alias(clave) == (CHOOSE par \in alias_a_estandar : par[1] = clave)[2]

\* the value NormalizadorColumnas._construir_mapa_renombre gives one column
NombreEstandar(col) ==
    LET col_limpia == LimpiarNombreColumna(col)
    IN  IF EnAlias(col_limpia) THEN Alias(col_limpia) ELSE col_limpia

\* what a pipeline stage hands back: the caller's table after the call
\* (entrada) and the returned table (salida)
FinEtapa(m) == [entrada |-> m.orig, salida |-> m.work]

\* tabla = tabla.rename(columns=mapa_renombre)
Renombrar(m) ==
    Reasignar(m, [m.work EXCEPT !.columnas =
                     [i \in DOMAIN m.work.columnas |->
                         NombreEstandar(m.work.columnas[i])]])

\* NormalizadorColumnas.normalizar: [entrada |-> the caller's table after
\* the call, salida |-> the returned table]
Normalizar(tabla) ==
    FinEtapa(Renombrar(Copiar(tabla)))

\* ------------------------------------------------------------- validator
\* ResultadoValidacion
ResultadoValidacion(es_valido, errores, advertencias) ==
    [es_valido |-> es_valido, errores |-> errores, advertencias |-> advertencias]

\* the outcome of a call: a returned value or a raised exception
Retorno(valor) == [excepcion |-> "ninguna", valor |-> valor]

Lanza(tipo, detalle) == [excepcion |-> tipo, valor |-> detalle]

\* messages, kept as records of what the text cites
ErrorTamano(filas, maximo) ==
    [tipo |-> "tamano", filas |-> filas, maximo |-> maximo, columnas |-> <<>>]

ErrorFaltantes(faltantes) ==
    [tipo |-> "faltantes", filas |-> 0, maximo |-> 0, columnas |-> faltantes]

ErrorFecha ==
    [tipo |-> "fecha", filas |-> 0, maximo |-> 0, columnas |-> <<n_fecha>>]

ErrorNumero(col) ==
    [tipo |-> "numero", filas |-> 0, maximo |-> 0, columnas |-> <<col>>]

AdvVacios(col) == [tipo |-> "vacios", columna |-> col]

AdvNegativos(col) == [tipo |-> "negativos", columna |-> col]

\* pd.to_datetime(errors="raise") succeeds on the cell (formato_fecha is None)
FechaConvertible(c) == c.t \in {"fechatxt", "fecha", "nan", "nat"}

\* pd.to_numeric(errors="raise") succeeds on the cell
NumeroConvertible(c) == c.t \in {"num", "nan"}

\* ValidadorEsquemaCSV._columna_fecha_convertible
ColumnaFechaConvertible(tabla, columna) ==
    \A c \in Range(Columna(tabla, columna)) : FechaConvertible(c)

\* ValidadorEsquemaCSV._columna_numerica_convertible
ColumnaNumericaConvertible(tabla, columna) ==
    \A c \in Range(Columna(tabla, columna)) : NumeroConvertible(c)

\* tabla[col].isna().any()
HayNulos(tabla, col) == \E c \in Range(Columna(tabla, col)) : c.t = "nan"

\* (tabla[col] < 0) raises TypeError when the column holds text: Python
\* does not order a str against an int
ComparacionLanza(tabla, col) ==
    \E c \in Range(Columna(tabla, col)) : c.t \in {"txt", "fechatxt", "str"}

\* (tabla[col] < 0).any() on a column that holds no text
HayNegativos(tabla, col) ==
    \E c \in Range(Columna(tabla, col)) : c.t = "num" /\ c.v < 0

numericas == <<n_cantidad, n_precio, n_costo>>

\* ValidadorEsquemaCSV.validar, steps 3 to 6 (the required columns exist)
ValidarTipos(tabla) ==
    LET errores ==
            (IF ColumnaFechaConvertible(tabla, n_fecha)
             THEN <<>> ELSE <<ErrorFecha>>)
            \o SelectIdx([i \in 1..3 |-> ErrorNumero(numericas[i])],
                         [i \in 1..3 |->
                             ~ColumnaNumericaConvertible(tabla, numericas[i])],
                         1)
        adv_vacios ==
            SelectIdx([i \in 1..3 |-> AdvVacios(numericas[i])],
                      [i \in 1..3 |-> HayNulos(tabla, numericas[i])], 1)
        adv_negativos ==
            SelectIdx([i \in 1..3 |-> AdvNegativos(numericas[i])],
                      [i \in 1..3 |-> HayNegativos(tabla, numericas[i])], 1)
    IN  IF \E i \in 1..3 : ComparacionLanza(tabla, numericas[i])
        THEN Lanza("TypeError", <<>>)
        ELSE Retorno(ResultadoValidacion(errores = <<>>, errores,
                                         adv_vacios \o adv_negativos))

\* validar with the optional columns counted among the required ones
ValidarConOpcionales(tabla) ==
    IF Len(tabla.filas) > max_filas_csv
    THEN Retorno(ResultadoValidacion(FALSE,
                    <<ErrorTamano(Len(tabla.filas), max_filas_csv)>>, <<>>))
    ELSE LET todas == columnas_requeridas \o columnas_opcionales
             faltantes ==
                 SelectIdx(todas,
                           [i \in DOMAIN todas |-> ~TieneColumna(tabla, todas[i])],
                           1)
         IN  IF faltantes # <<>>
             THEN Retorno(ResultadoValidacion(FALSE,
                             <<ErrorFaltantes(faltantes)>>, <<>>))
             ELSE ValidarTipos(tabla)

\* validar with the ceiling itself rejected (>= for >)
ValidarTechoExcluido(tabla) ==
    IF Len(tabla.filas) >= max_filas_csv
    THEN Retorno(ResultadoValidacion(FALSE,
                    <<ErrorTamano(Len(tabla.filas), max_filas_csv)>>, <<>>))
    ELSE LET faltantes ==
                 SelectIdx(columnas_requeridas,
                           [i \in DOMAIN columnas_requeridas |->
                               ~TieneColumna(tabla, columnas_requeridas[i])],
                           1)
         IN  IF faltantes # <<>>
             THEN Retorno(ResultadoValidacion(FALSE,
                             <<ErrorFaltantes(faltantes)>>, <<>>))
             ELSE ValidarTipos(tabla)

\* ValidadorEsquemaCSV.validar
Validar(tabla) ==
    IF Len(tabla.filas) > max_filas_csv
    THEN Retorno(ResultadoValidacion(FALSE,
                    <<ErrorTamano(Len(tabla.filas), max_filas_csv)>>, <<>>))
    ELSE LET faltantes ==
                 SelectIdx(columnas_requeridas,
                           [i \in DOMAIN columnas_requeridas |->
                               ~TieneColumna(tabla, columnas_requeridas[i])],
                           1)
         IN  IF faltantes # <<>>
             THEN Retorno(ResultadoValidacion(FALSE,
                             <<ErrorFaltantes(faltantes)>>, <<>>))
             ELSE ValidarTipos(tabla)

\* --------------------------------------------------------------- cleaner
\* ResultadoLimpieza
ResultadoLimpieza(filas_eliminadas, advertencias) ==
    [filas_eliminadas |-> filas_eliminadas, advertencias |-> advertencias]

AdvFechaInvalida(n) == [tipo |-> "fecha_invalida", columna |-> n_fecha, n |-> n]

AdvReemplazados(col, n) == [tipo |-> "reemplazados", columna |-> col, n |-> n]

AdvEliminadas(col, n) == [tipo |-> "eliminadas", columna |-> col, n |-> n]

\* pd.to_datetime(errors="coerce") on one cell
ToDatetimeCoerce(c) ==
    IF c.t \in {"fechatxt", "fecha"} THEN Fecha(c.v) ELSE NaT

\* pd.to_numeric(errors="coerce") on one cell
ToNumericCoerce(c) == IF c.t = "num" THEN c ELSE NaN

\* Series.fillna(0) on one cell
FillNa0(c) == IF c.t = "nan" THEN Num(0) ELSE c

EsNulo(c) == c.t \in {"nan", "nat"}

\* (tabla[col] < 0) on one numeric cell
EsNegativo(c) == c.t = "num" /\ c.v < 0

\* (tabla[col] >= 0) on one numeric cell
NoNegativo(c) == c.t = "num" /\ c.v >= 0

\* tabla[col].isna().sum()
ContarNulos(tabla, col) ==
    Cardinality({k \in DOMAIN tabla.filas : EsNulo(Columna(tabla, col)[k])})

\* (tabla[col] < 0).sum()
ContarNegativos(tabla, col) ==
    Cardinality({k \in DOMAIN tabla.filas : EsNegativo(Columna(tabla, col)[k])})

Convertir(op, c) ==
    CASE op = "to_datetime" -> ToDatetimeCoerce(c)
      [] op = "to_numeric" -> ToNumericCoerce(c)
      [] op = "fillna" -> FillNa0(c)

MapCol(tabla, col, op) ==
    [k \in DOMAIN tabla.filas |-> Convertir(op, Columna(tabla, col)[k])]

\* limpiar, step 1: convert fecha, report and drop the rows without a date.
\* The state threaded through the steps: m (the local tabla), adv (the
\* warnings so far), ini (filas_iniciales).
LimpiarFecha(m0) ==
    LET m1 == AsignarColumna(m0, n_fecha, MapCol(m0.work, n_fecha, "to_datetime"))
        filas_sin_fecha == ContarNulos(m1.work, n_fecha)
    IN  [m |-> Reasignar(m1, FilasDonde(m1.work,
                   [k \in DOMAIN m1.work.filas |->
                       ~EsNulo(Columna(m1.work, n_fecha)[k])])),
         adv |-> IF filas_sin_fecha > 0
                 THEN <<AdvFechaInvalida(filas_sin_fecha)>> ELSE <<>>,
         ini |-> Len(m0.work.filas)]

\* limpiar, step 2 for one column: coerce, count the nulls, fill with 0
ConvertirNumerica(est, col) ==
    LET m1 == AsignarColumna(est.m, col, MapCol(est.m.work, col, "to_numeric"))
        nulos == ContarNulos(m1.work, col)
    IN  IF nulos > 0
        THEN [est EXCEPT
                 !.m = AsignarColumna(m1, col, MapCol(m1.work, col, "fillna")),
                 !.adv = Append(est.adv, AdvReemplazados(col, nulos))]
        ELSE [est EXCEPT !.m = m1]

\* the drop with zero dropped too (> for >=)
EliminarSiEstricto(est, col, n) ==
    IF n > 0
    THEN [est EXCEPT
             !.m = Reasignar(est.m, FilasDonde(est.m.work,
                       [k \in DOMAIN est.m.work.filas |->
                           /\ Columna(est.m.work, col)[k].t = "num"
                           /\ Columna(est.m.work, col)[k].v > 0])),
             !.adv = Append(est.adv, AdvEliminadas(col, n))]
    ELSE est

\* if n > 0: warn and tabla = tabla[tabla[col] >= 0]
EliminarSi(est, col, n) ==
    IF n > 0
    THEN [est EXCEPT
             !.m = Reasignar(est.m, FilasDonde(est.m.work,
                       [k \in DOMAIN est.m.work.filas |->
                           NoNegativo(Columna(est.m.work, col)[k])])),
             !.adv = Append(est.adv, AdvEliminadas(col, n))]
    ELSE est

\* limpiar, step 3, cantidad: count the negative rows, then drop them
EliminarCantidadNegativa(est) ==
    EliminarSi(est, n_cantidad, ContarNegativos(est.m.work, n_cantidad))

\* limpiar, step 3, precio and costo: both counts are taken on the table as
\* the cantidad drop left it, then the precio drop and the costo drop run
EliminarPrecioCostoNegativo(est) ==
    EliminarSi(
        EliminarSi(est, n_precio, ContarNegativos(est.m.work, n_precio)),
        n_costo, ContarNegativos(est.m.work, n_costo))

\* limpiar, the return statement
FinLimpiar(est) ==
    [entrada |-> est.m.orig,
     salida |-> <<est.m.work,
                  ResultadoLimpieza(est.ini - Len(est.m.work.filas), est.adv)>>]

\* LimpiadorDatos.limpiar: [entrada |-> the caller's table after the call,
\* salida |-> <<cleaned table, ResultadoLimpieza>>]
Limpiar(tabla) ==
    FinLimpiar(
      EliminarPrecioCostoNegativo(
        EliminarCantidadNegativa(
          ConvertirNumerica(
            ConvertirNumerica(
              ConvertirNumerica(LimpiarFecha(Copiar(tabla)), n_cantidad),
              n_precio),
            n_costo))))

\* ----------------------------------------------------------- transformer
RECURSIVE MCD(_, _)
MCD(a, b) == IF b = 0 THEN a ELSE MCD(b, a % b)

Abs(x) == IF x < 0 THEN -x ELSE x

\* the fraction n/d (d # 0) in lowest terms with a positive denominator
Frac(n, d) ==
    LET g == MCD(Abs(n), Abs(d))
        sg == IF d < 0 THEN -1 ELSE 1
    IN  [t |-> "frac", v |-> <<sg * (n \div g), sg * (d \div g)>>]

Mul(a, b) == IF a.t = "num" /\ b.t = "num" THEN Num(a.v * b.v) ELSE NaN

Resta(a, b) == IF a.t = "num" /\ b.t = "num" THEN Num(a.v - b.v) ELSE NaN

\* tabla[destino] = tabla[a] <op> tabla[b]
Operar(op, x, y) == IF op = "*" THEN Mul(x, y) ELSE Resta(x, y)

AsignarBinaria(m, destino, a, b, op) ==
    AsignarColumna(m, destino,
        [k \in DOMAIN m.work.filas |->
            Operar(op, Columna(m.work, a)[k], Columna(m.work, b)[k])])

\* margen / ingresos wherever ingresos is not 0 (# for >)
MargenSobreIngresosNoCero(mar, ing, previo) ==
    IF ing.t = "num" /\ ing.v # 0
    THEN (IF mar.t = "num" THEN Frac(mar.v, ing.v) ELSE NaN)
    ELSE previo

\* margen / ingresos on the rows where ingresos > 0
MargenSobreIngresos(mar, ing, previo) ==
    IF ing.t = "num" /\ ing.v > 0
    THEN (IF mar.t = "num" THEN Frac(mar.v, ing.v) ELSE NaN)
    ELSE previo

\* tabla["margen_porcentaje"] = 0.0, then tabla.loc[mask, ...] = margen / ingresos
AsignarMargenPorcentaje(m) ==
    LET m1 == AsignarColumna(m, n_margen_porcentaje,
                  [k \in DOMAIN m.work.filas |-> Frac(0, 1)])
    IN  AsignarColumna(m1, n_margen_porcentaje,
            [k \in DOMAIN m1.work.filas |->
                MargenSobreIngresos(Columna(m1.work, n_margen)[k],
                                    Columna(m1.work, n_ingresos)[k],
                                    Columna(m1.work, n_margen_porcentaje)[k])])

\* TransformadorVentas.transformar: [entrada, salida]
Transformar(tabla) ==
    FinEtapa(
      AsignarMargenPorcentaje(
        AsignarBinaria(
          AsignarBinaria(
            AsignarBinaria(Copiar(tabla), n_ingresos, n_cantidad, n_precio, "*"),
            n_costo_total, n_cantidad, n_costo, "*"),
          n_margen, n_ingresos, n_costo_total, "-")))

\* ------------------------------------------------------------------ filter
\* FiltroSeleccion
FiltroSeleccion(fecha_inicio, fecha_fin, region, canal, id_producto) ==
    [fecha_inicio |-> fecha_inicio, fecha_fin |-> fecha_fin,
     region |-> region, canal |-> canal, id_producto |-> id_producto]

\* == between two cells (a missing value equals nothing)
CeldaIgual(a, b) == a.t = b.t /\ a.t \notin {"nan", "nat", "none"} /\ a.v = b.v

\* Python truth value of an Optional[str]
Truthy(x) == x.t = "str" /\ x.v # ""

\* tabla = tabla[tabla[col] == valor] when the selection is set and is not
\* the given "all" word
FiltrarCategoria(m, col, valor, todos) ==
    IF Truthy(valor) /\ valor.v # todos
    THEN Reasignar(m, FilasDonde(m.work,
                      [k \in DOMAIN m.work.filas |->
                          CeldaIgual(Columna(m.work, col)[k], valor)]))
    ELSE m

\* the date filter with the end bound exclusive
FiltrarFechasFinExcluido(m, fecha_inicio, fecha_fin) ==
    Reasignar(m, FilasDonde(m.work,
        [k \in DOMAIN m.work.filas |->
            /\ Columna(m.work, n_fecha)[k].t = "fecha"
            /\ Columna(m.work, n_fecha)[k].v >= fecha_inicio
            /\ Columna(m.work, n_fecha)[k].v < fecha_fin]))

\* tabla = tabla[(tabla["fecha"] >= fecha_inicio) & (tabla["fecha"] <= fecha_fin)]
FiltrarFechas(m, fecha_inicio, fecha_fin) ==
    Reasignar(m, FilasDonde(m.work,
        [k \in DOMAIN m.work.filas |->
            /\ Columna(m.work, n_fecha)[k].t = "fecha"
            /\ Columna(m.work, n_fecha)[k].v >= fecha_inicio
            /\ Columna(m.work, n_fecha)[k].v <= fecha_fin]))

\* FiltroDatos.aplicar: [entrada, salida]
Aplicar(tabla, filtros) ==
    FinEtapa(
      FiltrarCategoria(
        FiltrarCategoria(
          FiltrarCategoria(
            FiltrarFechas(Copiar(tabla), filtros.fecha_inicio, filtros.fecha_fin),
            n_region, filtros.region, "Todas"),
          n_canal, filtros.canal, "Todos"),
        n_id_producto, filtros.id_producto, "Todos"))

\* --------------------------------------------------------------- comparator
\* obtener_periodos with the prior period ending on fecha_inicio itself
ObtenerPeriodosSolapado(fecha_inicio, fecha_fin) ==
    LET duracion == fecha_fin - fecha_inicio
    IN  <<<<fecha_inicio, fecha_fin>>,
          <<fecha_inicio - duracion - 1, fecha_inicio>>>>

\* obtener_periodos with the prior period starting one day earlier
ObtenerPeriodosUnDiaAntes(fecha_inicio, fecha_fin) ==
    LET duracion == fecha_fin - fecha_inicio
    IN  <<<<fecha_inicio, fecha_fin>>,
          <<fecha_inicio - duracion - 2, fecha_inicio - 1>>>>

\* ComparadorPeriodos.obtener_periodos
ObtenerPeriodos(fecha_inicio, fecha_fin) ==
    LET duracion == fecha_fin - fecha_inicio
        inicio_anterior == fecha_inicio - duracion - 1
        fin_anterior == fecha_inicio - 1
    IN  <<<<fecha_inicio, fecha_fin>>, <<inicio_anterior, fin_anterior>>>>

\* a / b in Python: ZeroDivisionError when b is 0
Dividir(a, b) ==
    IF b = 0 THEN Lanza("ZeroDivisionError", <<>>) ELSE Retorno(Frac(a, b))

\* (diferencia / valor_anterior) * 100
PorCien(q) ==
    IF q.excepcion # "ninguna" THEN q
    ELSE Retorno(Frac(q.valor.v[1] * 100, q.valor.v[2]))

\* comparar_metricas without the guard on valor_anterior
CompararMetricasSinGuarda(valor_actual, valor_anterior) ==
    LET variacion_pct == PorCien(Dividir(valor_actual - valor_anterior, valor_anterior))
    IN  IF variacion_pct.excepcion # "ninguna" THEN variacion_pct
        ELSE Retorno([actual |-> valor_actual,
                      anterior |-> valor_anterior,
                      diferencia |-> valor_actual - valor_anterior,
                      variacion_pct |-> variacion_pct.valor])

\* ComparadorPeriodos.comparar_metricas
CompararMetricas(valor_actual, valor_anterior) ==
    LET diferencia == valor_actual - valor_anterior
        variacion_pct ==
            IF valor_anterior # 0
            THEN PorCien(Dividir(diferencia, valor_anterior))
            ELSE Retorno(Frac(0, 1))
    IN  IF variacion_pct.excepcion # "ninguna" THEN variacion_pct
        ELSE Retorno([actual |-> valor_actual,
                      anterior |-> valor_anterior,
                      diferencia |-> diferencia,
                      variacion_pct |-> variacion_pct.valor])

\* ---------------------------------------------------------------- insights
\* Insight; sujeto and cifras are what the message is formatted from: the
\* name it cites and the figures it shows (the message shows a percentage
\* to one decimal)
Insight(titulo, tipo, sujeto, cifras) ==
    [titulo |-> titulo, tipo |-> tipo, sujeto |-> sujeto, cifras |-> cifras]

t_sin_datos == "Sin datos"
t_sin_referencia == "Ingresos sin referencia histórica"
t_rendimiento == "Rendimiento vs período anterior"
t_region == "Región líder"
t_canal == "Canal más fuerte"
t_producto == "Producto líder y rentabilidad"
t_concentracion == "Riesgo de concentración"

\* tabla.empty
Vacia(tabla) == Len(tabla.filas) = 0 \/ Len(tabla.columnas) = 0

\* the sum of column medida over the rows from position i on
RECURSIVE SumaDesde(_, _, _)
SumaDesde(tabla, medida, i) ==
    IF i > Len(tabla.filas) THEN 0
    ELSE (IF Columna(tabla, medida)[i].t = "num"
          THEN Columna(tabla, medida)[i].v ELSE 0)
         + SumaDesde(tabla, medida, i + 1)

\* tabla[medida].sum()
Suma(tabla, medida) == SumaDesde(tabla, medida, 1)

\* isna / notna on one cell
EsNa(c) == c.t \in {"nan", "nat", "none"}

\* the keys of tabla.groupby(col): the non-null values of the column
Claves(tabla, col) == {c \in Range(Columna(tabla, col)) : ~EsNa(c)}

\* groupby(col).agg(sum) for one key: the sum of medida over the key's rows
SumaGrupo(tabla, col, clave, medida) ==
    Suma(FilasDonde(tabla, [k \in DOMAIN tabla.filas |->
                               Columna(tabla, col)[k] = clave]),
         medida)

\* the keys that .sort_values("ingresos", ascending=False).iloc[0] may be:
\* those of the largest summed ingresos (the sort is not stable, so among
\* equals any may come first); {None} when there is no group
Lideres(tabla, col) ==
    IF Claves(tabla, col) = {} THEN {None}
    ELSE {c \in Claves(tabla, col) :
             \A d \in Claves(tabla, col) :
                 SumaGrupo(tabla, col, d, n_ingresos)
                     <= SumaGrupo(tabla, col, c, n_ingresos)}

\* por_x["ingresos"].sum(): the total over the groups, which leaves out the
\* rows whose key is null
TotalGrupos(tabla, col) ==
    Suma(FilasDonde(tabla, [k \in DOMAIN tabla.filas |->
                               ~EsNa(Columna(tabla, col)[k])]),
         n_ingresos)

\* (parte / total) * 100 if total > 0 else 0.0
Porcentaje(parte, total) ==
    IF total > 0 THEN Frac(parte * 100, total) ELSE Frac(0, 1)

Signo(f) == IF f.v[1] > 0 THEN 1 ELSE IF f.v[1] < 0 THEN -1 ELSE 0

\* f >= n for a fraction f and an integer n
FracMayorIgual(f, n) == f.v[1] >= n * f.v[2]

\* rule 1 with the reference test on the prior sum alone
InsightTendenciaSoloAnterior(ingresos_actual, ingresos_anterior) ==
    IF ingresos_anterior = 0
    THEN <<Insight(t_sin_referencia, "neutral", None, <<>>)>>
    ELSE <<Insight(t_rendimiento,
                   CASE ingresos_actual > ingresos_anterior -> "positivo"
                     [] ingresos_actual < ingresos_anterior -> "negativo"
                     [] OTHER -> "neutral",
                   None,
                   <<ingresos_actual,
                     Frac((ingresos_actual - ingresos_anterior) * 100,
                          ingresos_anterior)>>)>>

\* generar, rule 1: revenue against the prior period
InsightTendencia(ingresos_actual, ingresos_anterior) ==
    LET variacion_pct ==
            IF ingresos_anterior # 0
            THEN Frac((ingresos_actual - ingresos_anterior) * 100,
                      ingresos_anterior)
            ELSE Frac(0, 1)
    IN  IF ingresos_anterior = 0 /\ ingresos_actual > 0
        THEN <<Insight(t_sin_referencia, "neutral", None, <<>>)>>
        ELSE <<Insight(t_rendimiento,
                       CASE Signo(variacion_pct) > 0 -> "positivo"
                         [] Signo(variacion_pct) < 0 -> "negativo"
                         [] OTHER -> "neutral",
                       None,
                       <<ingresos_actual, variacion_pct>>)>>

\* generar, rule 2: the leading region, top_region being por_region.iloc[0]
InsightRegion(tabla, top_region) ==
    IF TieneColumna(tabla, n_region) /\ Claves(tabla, n_region) # {}
    THEN <<Insight(t_region, "positivo", top_region,
                   <<Porcentaje(SumaGrupo(tabla, n_region, top_region, n_ingresos),
                                TotalGrupos(tabla, n_region)),
                     SumaGrupo(tabla, n_region, top_region, n_ingresos)>>)>>
    ELSE <<>>

\* generar, rule 3: the leading channel
InsightCanal(tabla, top_canal) ==
    IF TieneColumna(tabla, n_canal) /\ Claves(tabla, n_canal) # {}
    THEN <<Insight(t_canal, "neutral", top_canal,
                   <<SumaGrupo(tabla, n_canal, top_canal, n_ingresos)>>)>>
    ELSE <<>>

\* top_prod["margen"] / top_prod["ingresos"] * 100 if ingresos > 0 else 0.0
MargenPct(tabla, top_prod) ==
    Porcentaje(SumaGrupo(tabla, n_id_producto, top_prod, n_margen),
               SumaGrupo(tabla, n_id_producto, top_prod, n_ingresos))

\* rule 4 with a margin of exactly 15% counted as low
InsightProductoEstricto(tabla, top_prod) ==
    IF Claves(tabla, n_id_producto) # {}
    THEN <<Insight(t_producto,
                   IF /\ FracMayorIgual(MargenPct(tabla, top_prod), 15)
                      /\ MargenPct(tabla, top_prod) # Frac(15, 1)
                   THEN "positivo" ELSE "negativo",
                   top_prod,
                   <<SumaGrupo(tabla, n_id_producto, top_prod, n_ingresos),
                     MargenPct(tabla, top_prod)>>)>>
    ELSE <<>>

\* generar, rule 4: the leading product and its margin
InsightProducto(tabla, top_prod) ==
    IF Claves(tabla, n_id_producto) # {}
    THEN <<Insight(t_producto,
                   IF FracMayorIgual(MargenPct(tabla, top_prod), 15)
                   THEN "positivo" ELSE "negativo",
                   top_prod,
                   <<SumaGrupo(tabla, n_id_producto, top_prod, n_ingresos),
                     MargenPct(tabla, top_prod)>>)>>
    ELSE <<>>

\* the share of the leading product in the total of the products
ShareTop(tabla, top_prod) ==
    Porcentaje(SumaGrupo(tabla, n_id_producto, top_prod, n_ingresos),
               TotalGrupos(tabla, n_id_producto))

\* rule 5 with the threshold itself left out (> for >=)
InsightConcentracionEstricta(tabla, top_prod) ==
    IF Claves(tabla, n_id_producto) # {}
       /\ ShareTop(tabla, top_prod).v[1] > 60 * ShareTop(tabla, top_prod).v[2]
    THEN <<Insight(t_concentracion, "negativo", top_prod,
                   <<ShareTop(tabla, top_prod)>>)>>
    ELSE <<>>

\* generar, rule 5: dependence on one product
InsightConcentracion(tabla, top_prod) ==
    IF Claves(tabla, n_id_producto) # {}
       /\ FracMayorIgual(ShareTop(tabla, top_prod), 60)
    THEN <<Insight(t_concentracion, "negativo", top_prod,
                   <<ShareTop(tabla, top_prod)>>)>>
    ELSE <<>>

\* float(tabla_anterior["ingresos"].sum()) if not tabla_anterior.empty else 0.0
IngresosAnterior(tabla_anterior) ==
    IF Vacia(tabla_anterior) THEN 0 ELSE Suma(tabla_anterior, n_ingresos)

\* generar with the channel rule evaluated before the region rule
GenerarCanalPrimero(tabla_actual, tabla_anterior, top_region, top_canal, top_prod) ==
    IF Vacia(tabla_actual)
    THEN <<Insight(t_sin_datos, "neutral", None, <<>>)>>
    ELSE InsightTendencia(Suma(tabla_actual, n_ingresos),
                          IngresosAnterior(tabla_anterior))
         \o InsightCanal(tabla_actual, top_canal)
         \o InsightRegion(tabla_actual, top_region)
         \o InsightProducto(tabla_actual, top_prod)
         \o InsightConcentracion(tabla_actual, top_prod)

\* GeneradorInsights.generar; top_region, top_canal and top_prod are the
\* first rows of the three sorted groupings
Generar(tabla_actual, tabla_anterior, top_region, top_canal, top_prod) ==
    IF Vacia(tabla_actual)
    THEN <<Insight(t_sin_datos, "neutral", None, <<>>)>>
    ELSE InsightTendencia(Suma(tabla_actual, n_ingresos),
                          IngresosAnterior(tabla_anterior))
         \o InsightRegion(tabla_actual, top_region)
         \o InsightCanal(tabla_actual, top_canal)
         \o InsightProducto(tabla_actual, top_prod)
         \o InsightConcentracion(tabla_actual, top_prod)

\* ---------------------------------------------------------------- forecast
\* the members of a set of integers in ascending order
RECURSIVE Ordenar(_)
Ordenar(S) ==
    IF S = {} THEN <<>>
    ELSE LET m == CHOOSE x \in S : \A y \in S : x <= y
         IN  <<m>> \o Ordenar(S \ {m})

\* tabla.groupby("fecha").agg(ingresos = sum).sort_values("fecha"): one row
\* per distinct date, ascending
Diario(tabla) ==
    LET fechas == Ordenar({c.v : c \in Claves(tabla, n_fecha)})
    IN  [j \in DOMAIN fechas |->
            [fecha |-> fechas[j],
             ingresos |-> SumaGrupo(tabla, n_fecha, Fecha(fechas[j]), n_ingresos)]]

\* the sums of the least-squares fit over the days from j on: of the index
\* x = j - 1, of the day's revenue y, of x * x and of x * y
RECURSIVE SumaFit(_, _, _)
SumaFit(diario, cual, j) ==
    IF j > Len(diario) THEN 0
    ELSE (CASE cual = "x" -> j - 1
            [] cual = "y" -> diario[j].ingresos
            [] cual = "xx" -> (j - 1) * (j - 1)
            [] cual = "xy" -> (j - 1) * diario[j].ingresos)
         + SumaFit(diario, cual, j + 1)

\* LinearRegression().fit(X, y) on dia_idx = 0 .. n-1: the least-squares
\* line (slope 0 through the mean when there is one day only)
Ajustar(diario) ==
    LET n == Len(diario)
        sx == SumaFit(diario, "x", 1)
        sy == SumaFit(diario, "y", 1)
        sxx == SumaFit(diario, "xx", 1)
        sxy == SumaFit(diario, "xy", 1)
        den == n * sxx - sx * sx
        num == n * sxy - sx * sy
    IN  IF den = 0
        THEN [coef |-> Frac(0, 1), intercepto |-> Frac(sy, n)]
        ELSE [coef |-> Frac(num, den),
              intercepto |-> Frac(sy * den - num * sx, n * den)]

\* modelo.predict at index idx: intercepto + coef * idx
Predecir(modelo, idx) ==
    Frac(modelo.intercepto.v[1] * modelo.coef.v[2]
             + modelo.coef.v[1] * idx * modelo.intercepto.v[2],
         modelo.intercepto.v[2] * modelo.coef.v[2])

t_real == "Real"
t_pronostico == "Pronóstico"

\* the table with the line evaluated at the calendar offset of each future
\* day from the first historical day
TablaPronosticoCalendario(diario, modelo, dias_futuros) ==
    [j \in 1..(Len(diario) + dias_futuros) |->
        IF j <= Len(diario)
        THEN [fecha |-> diario[j].fecha, ingresos |-> Num(diario[j].ingresos),
              tipo |-> t_real]
        ELSE [fecha |-> diario[Len(diario)].fecha + (j - Len(diario)),
              ingresos |-> Predecir(modelo,
                                    diario[Len(diario)].fecha - diario[1].fecha
                                        + (j - Len(diario))),
              tipo |-> t_pronostico]]

\* pd.concat([tabla_real, tabla_futura], ignore_index=True)
TablaPronostico(diario, modelo, dias_futuros) ==
    [j \in 1..(Len(diario) + dias_futuros) |->
        IF j <= Len(diario)
        THEN [fecha |-> diario[j].fecha, ingresos |-> Num(diario[j].ingresos),
              tipo |-> t_real]
        ELSE [fecha |-> diario[Len(diario)].fecha + (j - Len(diario)),
              ingresos |-> Predecir(modelo, j - 1),
              tipo |-> t_pronostico]]

\* ResultadoPronostico
ResultadoPronostico(tabla, modelo) == [tabla |-> tabla, modelo |-> modelo]

\* entrenar_y_pronosticar without the test of tabla.empty
EntrenarYPronosticarSinGuarda(tabla, dias_futuros) ==
    IF dias_futuros = 0 /\ ~Vacia(tabla)
    THEN Lanza("ValueError", <<"predict">>)
    ELSE Retorno(ResultadoPronostico(
             IF Vacia(tabla) THEN <<>>
             ELSE TablaPronostico(Diario(tabla), Ajustar(Diario(tabla)), dias_futuros),
             IF Vacia(tabla) THEN [coef |-> Frac(0, 1), intercepto |-> Frac(0, 1)]
             ELSE Ajustar(Diario(tabla))))

\* PronosticadorVentasLineal.entrenar_y_pronosticar.  With dias_futuros = 0
\* idx_futuro is empty, and modelo.predict refuses an array of 0 samples
\* with a ValueError.
EntrenarYPronosticar(tabla, dias_futuros) ==
    IF Vacia(tabla) THEN Lanza("ValueError", <<"No hay datos">>)
    ELSE IF dias_futuros = 0 THEN Lanza("ValueError", <<"predict">>)
    ELSE Retorno(ResultadoPronostico(
             TablaPronostico(Diario(tabla), Ajustar(Diario(tabla)), dias_futuros),
             Ajustar(Diario(tabla))))

\* ------------------------------------------------------------ input data
\* what one line of a CSV file holds, by meaning of the field
FilaDatos(fecha, cantidad, precio, costo, region, canal, id_producto) ==
    [fecha |-> fecha, id_orden |-> Str("O1"), id_cliente |-> Str("C1"),
     id_producto |-> id_producto, cantidad |-> cantidad, precio |-> precio,
     costo |-> costo, region |-> region, canal |-> canal,
     estado |-> Str("ok"), categoria |-> Str("A"),
     nombre_producto |-> Str("x")]

FilasCrudas ==
    { FilaDatos(FechaTxt(1), Num(2), Num(3), Num(1), Str("Norte"), Str("Web"), Str("P1")),
      FilaDatos(FechaTxt(2), Num(1), Num(2), Num(2), Str("Sur"), Str("Tienda"), Str("P2")),
      FilaDatos(FechaTxt(3), Num(-5), Num(10), Num(3), Str("Norte"), Str("Web"), Str("P1")),
      FilaDatos(FechaTxt(2), Num(1), Num(-1), Num(-2), Str("Sur"), Str("Web"), Str("P2")),
      FilaDatos(Txt("ayer"), Num(1), Num(1), Num(1), Str("Norte"), Str("Tienda"), Str("P1")),
      FilaDatos(FechaTxt(1), Txt("abc"), NaN, Num(3), NaN, Str("Web"), Str("P1")),
      FilaDatos(FechaTxt(3), NaN, Num(2), Num(1), Str("Sur"), NaN, Str("P2")) }

Col(nombre, campo) == [nombre |-> nombre, campo |-> campo]

\* header lines of the files read: each column's name as written in the
\* file and the field its cells hold
EncabezadoCanonico ==
    <<Col(n_fecha, "fecha"), Col(n_id_orden, "id_orden"),
      Col(n_id_cliente, "id_cliente"), Col(n_id_producto, "id_producto"),
      Col(n_cantidad, "cantidad"), Col(n_precio, "precio"),
      Col(n_costo, "costo"), Col(n_region, "region"), Col(n_canal, "canal")>>

EncabezadoAlias ==
    <<Col(<<" ", "D", "a", "t", "e", " ">>, "fecha"),
      Col(<<"O", "r", "d", "e", "r", "_", "I", "D">>, "id_orden"),
      Col(<<"c", "u", "s", "t", "o", "m", "e", "r", "_", "i", "d">>, "id_cliente"),
      Col(<<"P", "R", "O", "D", "U", "C", "T", "_", "I", "D">>, "id_producto"),
      Col(<<"Q", "t", "y">>, "cantidad"),
      Col(<<"p", "r", "i", "c", "e", "\t">>, "precio"),
      Col(<<"C", "O", "S", "T">>, "costo"),
      Col(<<" ", "R", "e", "g", "i", "ó", "n", " ">>, "region"),
      Col(<<"C", "h", "a", "n", "n", "e", "l">>, "canal"),
      Col(<<"E", "s", "t", "a", "d", "o">>, "estado")>>

EncabezadoSinFechaCosto ==
    <<Col(n_id_orden, "id_orden"), Col(n_id_cliente, "id_cliente"),
      Col(n_id_producto, "id_producto"), Col(n_cantidad, "cantidad"),
      Col(n_precio, "precio"), Col(<<"R", "E", "G", "I", "O", "N">>, "region"),
      Col(n_canal, "canal"), Col(n_categoria, "categoria")>>

EncabezadoSinRegion ==
    <<Col(n_fecha, "fecha"), Col(n_id_orden, "id_orden"),
      Col(n_id_cliente, "id_cliente"), Col(n_id_producto, "id_producto"),
      Col(n_cantidad, "cantidad"), Col(n_precio, "precio"),
      Col(n_costo, "costo"), Col(n_canal, "canal"),
      Col(<<"N", "o", "m", "b", "r", "e", " ", " ", "P", "r", "o", "d", "u", "c", "t", "o">>,
          "nombre_producto")>>

Encabezados ==
    {EncabezadoCanonico, EncabezadoAlias, EncabezadoSinFechaCosto,
     EncabezadoSinRegion}

\* pd.read_csv: the table of a file with header enc and data lines datos
\* (a RangeIndex labels the rows 0, 1, ...)
LeerCsv(enc, datos) ==
    [columnas |-> [i \in DOMAIN enc |-> enc[i].nombre],
     indice |-> [k \in DOMAIN datos |-> k - 1],
     filas |-> [k \in DOMAIN datos |-> [i \in DOMAIN enc |-> datos[k][enc[i].campo]]]]

\* the files read: at most one row above the ceiling
ArchivosCsv ==
    {LeerCsv(enc, datos) :
        enc \in Encabezados, datos \in SeqsUpTo(FilasCrudas, max_filas_csv + 1)}

\* data lines of sales files that pass validation: three products, two
\* regions and a row without region, two channels and a row without channel,
\* a row without cantidad, two rows on the same day, a sale whose margin is
\* exactly 15% of its revenue
FilasVentas ==
    { FilaDatos(FechaTxt(1), Num(7), Num(2), Num(1), Str("Norte"), Str("Web"), Str("P1")),
      FilaDatos(FechaTxt(2), Num(3), Num(2), Num(2), Str("Sur"), Str("Tienda"), Str("P2")),
      FilaDatos(FechaTxt(3), Num(3), Num(2), Num(1), NaN, Str("Web"), Str("P1")),
      FilaDatos(FechaTxt(2), Num(2), Num(2), Num(1), Str("Norte"), Str("Tienda"), Str("P2")),
      FilaDatos(FechaTxt(3), NaN, Num(2), Num(1), Str("Sur"), NaN, Str("P2")),
      FilaDatos(FechaTxt(1), Num(1), Num(20), Num(17), Str("Sur"), Str("Web"), Str("P3")) }

\* the sales files read: canonical header, within the ceiling
ArchivosVentas ==
    {LeerCsv(EncabezadoCanonico, datos) :
        datos \in SeqsUpTo(FilasVentas, max_filas_csv)}

TieneRequeridas(tabla) ==
    \A i \in DOMAIN columnas_requeridas : TieneColumna(tabla, columnas_requeridas[i])

Dias == 1..MaxDia

\* what the three select boxes (or a direct caller) hand to FiltroSeleccion
SeleccionesCategoria ==
    { <<Str("Todas"), Str("Todos"), Str("Todos")>>,
      <<Str("Norte"), Str("Todos"), Str("Todos")>>,
      <<Str("Todas"), Str("Web"), Str("Todos")>>,
      <<Str("Todas"), Str("Todos"), Str("P1")>>,
      <<Str("Sur"), Str("Tienda"), Str("P2")>>,
      <<None, None, None>>,
      <<Str(""), Str(""), Str("")>>,
      <<Str("Todos"), Str("Todas"), Str("Todas")>> }

Selecciones ==
    {FiltroSeleccion(a, b, c[1], c[2], c[3]) :
        a \in Dias, b \in Dias, c \in SeleccionesCategoria}

\* ------------------------------------------------------------------- state
VARIABLES
    pc,                 \* where the run of the application stands
    tabla_cruda,        \* the table pd.read_csv makes of the file at hand
    tabla_normalizada,  \* app.py: tabla_normalizada (the loader's result)
    validacion,         \* the outcome of validar inside cargar
    excepcion,          \* the exception the run ended with, if any
    tabla_limpia,       \* app.py: tabla_limpia
    resultado_limpieza, \* app.py: resultado_limpieza
    tabla_final,        \* app.py: tabla_final
    filtros,            \* app.py: filtros
    tabla_filtrada,     \* app.py: tabla_filtrada
    periodo_anterior,   \* app.py: periodo_anterior
    tabla_anterior,     \* app.py: tabla_anterior
    llamada,            \* a direct call of a method and its outcome
    insights,           \* app.py: insights
    dias_pronostico,    \* app.py: dias_pronostico (the horizon asked for)
    resultado_pronostico \* app.py: resultado (of the forecaster), or what it raised

vars ==
    <<pc, tabla_cruda, tabla_normalizada, validacion, excepcion, tabla_limpia,
      resultado_limpieza, tabla_final, filtros, tabla_filtrada,
      periodo_anterior, tabla_anterior, llamada, insights,
      dias_pronostico, resultado_pronostico>>

\* what the analytics of the dashboard (insights, forecast) leave behind
analitica == <<insights, dias_pronostico, resultado_pronostico>>

SinExcepcion == Lanza("ninguna", <<>>)

\* validar has not been called
SinValidacion == Lanza("pendiente", <<>>)

\* no file, or one that pd.read_csv parses under no encoding and separator
SinArchivo == TablaVacia

SinLlamada == [op |-> "ninguna", args |-> <<>>, res |-> Retorno(<<>>)]

SinFiltros == FiltroSeleccion(1, 1, None, None, None)

\* generar has not been called
SinInsights == <<>>

\* entrenar_y_pronosticar has not been called
SinResultado == Lanza("pendiente", <<>>)

Init ==
    /\ pc = "inicio"
    /\ tabla_cruda \in ArchivosCsv \cup {SinArchivo}
    /\ tabla_normalizada = TablaVacia
    /\ validacion = SinValidacion
    /\ excepcion = SinExcepcion
    /\ tabla_limpia = TablaVacia
    /\ resultado_limpieza = ResultadoLimpieza(0, <<>>)
    /\ tabla_final = TablaVacia
    /\ filtros = SinFiltros
    /\ tabla_filtrada = TablaVacia
    /\ periodo_anterior = <<0, 0>>
    /\ tabla_anterior = TablaVacia
    /\ llamada = SinLlamada
    /\ insights = SinInsights
    /\ dias_pronostico = 0
    /\ resultado_pronostico = SinResultado

\* cargar without the check of es_valido: the table is returned whatever
\* validar reports
CargarTablaSinComprobar(tabla) ==
    [cruda |-> Normalizar(tabla).entrada,
     normalizada |-> Normalizar(tabla).salida,
     validacion |-> Validar(Normalizar(tabla).salida),
     salida |->
        IF Validar(Normalizar(tabla).salida).excepcion # "ninguna"
        THEN Validar(Normalizar(tabla).salida)
        ELSE Retorno(Normalizar(tabla).salida)]

\* FuenteDatosCSV.cargar once _leer_csv has returned tabla: the caller's
\* table after the call, the normalised table, validar's outcome and the
\* outcome of cargar itself
CargarTabla(tabla) ==
    LET norm == Normalizar(tabla)
        resultado == Validar(norm.salida)
    IN  [cruda |-> norm.entrada,
         normalizada |-> norm.salida,
         validacion |-> resultado,
         salida |->
            IF resultado.excepcion # "ninguna" THEN resultado
            ELSE IF ~resultado.valor.es_valido
                 THEN Lanza("ErrorValidacionDatos", resultado.valor.errores)
                 ELSE Retorno(norm.salida)]

\* app.py: fuente.cargar() on a file that can be read
Cargar ==
    /\ pc = "inicio"
    /\ tabla_cruda # SinArchivo
    /\ LET r == CargarTabla(tabla_cruda)
       IN  /\ tabla_cruda' = r.cruda
           /\ validacion' = r.validacion
           /\ IF r.salida.excepcion = "ninguna"
              THEN /\ pc' = "cargada"
                   /\ tabla_normalizada' = r.salida.valor
                   /\ excepcion' = SinExcepcion
              ELSE /\ pc' = "error"
                   /\ tabla_normalizada' = TablaVacia
                   /\ excepcion' = r.salida
    /\ UNCHANGED analitica
    /\ UNCHANGED <<tabla_limpia, resultado_limpieza, tabla_final, filtros,
                   tabla_filtrada, periodo_anterior, tabla_anterior, llamada>>

\* app.py: fuente.cargar() when _leer_csv fails
CargarFalla ==
    /\ pc = "inicio"
    /\ tabla_cruda = SinArchivo
    /\ pc' = "error"
    /\ excepcion' = Lanza("ErrorFuenteDatos", <<>>)
    /\ UNCHANGED analitica
    /\ UNCHANGED <<tabla_cruda, tabla_normalizada, validacion, tabla_limpia,
                   resultado_limpieza, tabla_final, filtros, tabla_filtrada,
                   periodo_anterior, tabla_anterior, llamada>>

\* a caller that normalises a table without validating it
NormalizarSolo ==
    /\ pc = "inicio"
    /\ tabla_cruda # SinArchivo
    /\ Len(tabla_cruda.filas) <= max_filas_csv
    /\ LET r == Normalizar(tabla_cruda)
       IN  /\ tabla_cruda' = r.entrada
           /\ tabla_normalizada' = r.salida
    /\ pc' = "normalizada"
    /\ UNCHANGED analitica
    /\ UNCHANGED <<validacion, excepcion, tabla_limpia, resultado_limpieza,
                   tabla_final, filtros, tabla_filtrada, periodo_anterior,
                   tabla_anterior, llamada>>

\* app.py: limpiador.limpiar(tabla_normalizada); also a caller that cleans
\* a normalised table holding the required columns without validating it
LimpiarPaso ==
    /\ pc \in {"cargada", "normalizada"}
    /\ TieneRequeridas(tabla_normalizada)
    /\ LET r == Limpiar(tabla_normalizada)
       IN  /\ tabla_normalizada' = r.entrada
           /\ tabla_limpia' = r.salida[1]
           /\ resultado_limpieza' = r.salida[2]
    /\ pc' = IF pc = "cargada" THEN "limpia" ELSE "limpia_sin_validar"
    /\ UNCHANGED analitica
    /\ UNCHANGED <<tabla_cruda, validacion, excepcion, tabla_final, filtros,
                   tabla_filtrada, periodo_anterior, tabla_anterior, llamada>>

\* app.py: transformador.transformar(tabla_limpia)
TransformarPaso ==
    /\ pc = "limpia"
    /\ LET r == Transformar(tabla_limpia)
       IN  /\ tabla_limpia' = r.entrada
           /\ tabla_final' = r.salida
    /\ pc' = "transformada"
    /\ UNCHANGED analitica
    /\ UNCHANGED <<tabla_cruda, tabla_normalizada, validacion, excepcion,
                   resultado_limpieza, filtros, tabla_filtrada,
                   periodo_anterior, tabla_anterior, llamada>>

\* a caller that hands normalizar its own output
LlamarNormalizar ==
    /\ pc = "normalizada"
    /\ LET r == Normalizar(tabla_normalizada)
       IN  /\ tabla_normalizada' = r.entrada
           /\ llamada' = [op |-> "normalizar", args |-> <<tabla_normalizada>>,
                          res |-> Retorno(r.salida)]
    /\ pc' = "renormalizada"
    /\ UNCHANGED analitica
    /\ UNCHANGED <<tabla_cruda, validacion, excepcion, tabla_limpia,
                   resultado_limpieza, tabla_final, filtros, tabla_filtrada,
                   periodo_anterior, tabla_anterior>>

\* every cell of cantidad, precio and costo is a number
SoloNumeros(tabla) ==
    \A i \in DOMAIN numericas :
        \A c \in Range(Columna(tabla, numericas[i])) : c.t = "num"

\* a caller that hands transformar a table of numbers that limpiar has not
\* seen (negative values are still in it)
TransformarSinLimpiar ==
    /\ pc = "normalizada"
    /\ TieneRequeridas(tabla_normalizada)
    /\ SoloNumeros(tabla_normalizada)
    /\ LET r == Transformar(tabla_normalizada)
       IN  /\ tabla_normalizada' = r.entrada
           /\ tabla_final' = r.salida
    /\ pc' = "transformada_sin_limpiar"
    /\ UNCHANGED analitica
    /\ UNCHANGED <<tabla_cruda, validacion, excepcion, tabla_limpia,
                   resultado_limpieza, filtros, tabla_filtrada,
                   periodo_anterior, tabla_anterior, llamada>>

\* app.py: the user's selection and filtro_datos.aplicar(tabla_final, filtros)
FiltrarActual ==
    /\ pc = "transformada"
    /\ \E sel \in Selecciones :
          /\ sel.fecha_inicio <= sel.fecha_fin
          /\ LET r == Aplicar(tabla_final, sel)
             IN  /\ filtros' = sel
                 /\ tabla_final' = r.entrada
                 /\ tabla_filtrada' = r.salida
    /\ pc' = "filtrada"
    /\ UNCHANGED analitica
    /\ UNCHANGED <<tabla_cruda, tabla_normalizada, validacion, excepcion,
                   tabla_limpia, resultado_limpieza, periodo_anterior,
                   tabla_anterior, llamada>>

\* app.py: obtener_periodos and aplicar on the prior period, with the same
\* region, canal and producto
FiltrarAnterior ==
    /\ pc = "filtrada"
    /\ LET periodos == ObtenerPeriodos(filtros.fecha_inicio, filtros.fecha_fin)
           r == Aplicar(tabla_final,
                        FiltroSeleccion(periodos[2][1], periodos[2][2],
                                        filtros.region, filtros.canal,
                                        filtros.id_producto))
       IN  /\ periodo_anterior' = periodos[2]
           /\ tabla_final' = r.entrada
           /\ tabla_anterior' = r.salida
    /\ pc' = "comparada"
    /\ UNCHANGED analitica
    /\ UNCHANGED <<tabla_cruda, tabla_normalizada, validacion, excepcion,
                   tabla_limpia, resultado_limpieza, filtros, tabla_filtrada,
                   llamada>>

\* the days handed to obtener_periodos: those of the data, and the 15th and
\* the 21st of the month of the documented example
DiasLlamada == Dias \cup {15, 21}

\* a direct call of ComparadorPeriodos.obtener_periodos (by a caller that
\* loads no file)
LlamarObtenerPeriodos ==
    /\ pc = "inicio"
    /\ tabla_cruda = SinArchivo
    /\ \E a \in DiasLlamada, b \in DiasLlamada :
          llamada' = [op |-> "obtener_periodos", args |-> <<a, b>>,
                      res |-> Retorno(ObtenerPeriodos(a, b))]
    /\ pc' = "llamada"
    /\ UNCHANGED analitica
    /\ UNCHANGED <<tabla_cruda, tabla_normalizada, validacion, excepcion,
                   tabla_limpia, resultado_limpieza, tabla_final, filtros,
                   tabla_filtrada, periodo_anterior, tabla_anterior>>

\* the metric values compared: small ones of either sign, and those of the
\* documented examples
Valores == ((0 - MaxValor)..MaxValor) \cup {50, 100, 120}

\* a direct call of ComparadorPeriodos.comparar_metricas (by a caller that
\* loads no file)
LlamarCompararMetricas ==
    /\ pc = "inicio"
    /\ tabla_cruda = SinArchivo
    /\ \E x \in Valores, y \in Valores :
          llamada' = [op |-> "comparar_metricas", args |-> <<x, y>>,
                      res |-> CompararMetricas(x, y)]
    /\ pc' = "llamada"
    /\ UNCHANGED analitica
    /\ UNCHANGED <<tabla_cruda, tabla_normalizada, validacion, excepcion,
                   tabla_limpia, resultado_limpieza, tabla_final, filtros,
                   tabla_filtrada, periodo_anterior, tabla_anterior>>

\* app.py: generador.generar(tabla_filtrada, tabla_anterior, ...)
GenerarInsights ==
    /\ pc = "comparada"
    /\ \E top_region \in Lideres(tabla_filtrada, n_region),
          top_canal \in Lideres(tabla_filtrada, n_canal),
          top_prod \in Lideres(tabla_filtrada, n_id_producto) :
          insights' = Generar(tabla_filtrada, tabla_anterior,
                              top_region, top_canal, top_prod)
    /\ pc' = "insights"
    /\ UNCHANGED <<tabla_cruda, tabla_normalizada, validacion, excepcion,
                   tabla_limpia, resultado_limpieza, tabla_final, filtros,
                   tabla_filtrada, periodo_anterior, tabla_anterior, llamada,
                   dias_pronostico, resultado_pronostico>>

\* app.py: the branch taken when tabla_filtrada is empty: no forecast
PronosticoOmitido ==
    /\ pc = "insights"
    /\ Vacia(tabla_filtrada)
    /\ pc' = "sin_pronostico"
    /\ UNCHANGED analitica
    /\ UNCHANGED <<tabla_cruda, tabla_normalizada, validacion, excepcion,
                   tabla_limpia, resultado_limpieza, tabla_final, filtros,
                   tabla_filtrada, periodo_anterior, tabla_anterior, llamada>>

\* pronosticador.entrenar_y_pronosticar(tabla_filtrada, dias_futuros) inside
\* try / except Exception, as app.py calls it, or as a caller that neither
\* tests tabla_filtrada.empty first nor takes the horizon from the slider
Pronosticar ==
    /\ pc = "insights"
    /\ \E dias_futuros \in 0..MaxHorizonte :
          /\ dias_pronostico' = dias_futuros
          /\ resultado_pronostico' =
                EntrenarYPronosticar(tabla_filtrada, dias_futuros)
    /\ pc' = "pronosticada"
    /\ UNCHANGED <<tabla_cruda, tabla_normalizada, validacion, excepcion,
                   tabla_limpia, resultado_limpieza, tabla_final, filtros,
                   tabla_filtrada, periodo_anterior, tabla_anterior, llamada,
                   insights>>

Next ==
    \/ Cargar
    \/ CargarFalla
    \/ NormalizarSolo
    \/ LlamarNormalizar
    \/ LimpiarPaso
    \/ TransformarPaso
    \/ TransformarSinLimpiar
    \/ FiltrarActual
    \/ FiltrarAnterior
    \/ LlamarObtenerPeriodos
    \/ LlamarCompararMetricas

Spec == Init /\ [][Next]_vars

\* the dashboard run on a sales file that passes validation
InitAnalisis ==
    /\ pc = "inicio"
    /\ tabla_cruda \in ArchivosVentas
    /\ tabla_normalizada = TablaVacia
    /\ validacion = SinValidacion
    /\ excepcion = SinExcepcion
    /\ tabla_limpia = TablaVacia
    /\ resultado_limpieza = ResultadoLimpieza(0, <<>>)
    /\ tabla_final = TablaVacia
    /\ filtros = SinFiltros
    /\ tabla_filtrada = TablaVacia
    /\ periodo_anterior = <<0, 0>>
    /\ tabla_anterior = TablaVacia
    /\ llamada = SinLlamada
    /\ insights = SinInsights
    /\ dias_pronostico = 0
    /\ resultado_pronostico = SinResultado

NextAnalisis ==
    \/ Cargar
    \/ LimpiarPaso
    \/ TransformarPaso
    \/ FiltrarActual
    \/ FiltrarAnterior
    \/ GenerarInsights
    \/ PronosticoOmitido
    \/ Pronosticar

SpecAnalisis == InitAnalisis /\ [][NextAnalisis]_vars

\* ------------------------------------------------------------------ claims
\* the calendar days of the closed period p = <<first day, last day>>
DiasDe(p) == p[1]..p[2]

\* what C1 says of the periods returned for <<inicio, fin>>
PeriodosCorrectos(inicio, fin, actual, anterior) ==
    /\ actual = <<inicio, fin>>
    /\ anterior = <<inicio - (fin - inicio) - 1, inicio - 1>>
    /\ Cardinality(DiasDe(anterior)) = Cardinality(DiasDe(actual))
    /\ anterior[2] + 1 = inicio
    /\ DiasDe(anterior) \cap DiasDe(actual) = {}

\* C1: for day-granular dates start <= end, obtener_periodos returns the
\* current period unchanged and the prior period
\* (start - (end - start) - 1 day, start - 1 day), which covers as many
\* calendar days as [start, end], ends the day before start and shares no
\* day with the current period; so does the prior period the application
\* derives from the user's selection.
C1_PeriodoAnterior ==
    /\ (llamada.op = "obtener_periodos" /\ llamada.args[1] <= llamada.args[2])
          => /\ llamada.res.excepcion = "ninguna"
             /\ PeriodosCorrectos(llamada.args[1], llamada.args[2],
                                  llamada.res.valor[1], llamada.res.valor[2])
    /\ pc = "comparada"
          => PeriodosCorrectos(filtros.fecha_inicio, filtros.fecha_fin,
                               <<filtros.fecha_inicio, filtros.fecha_fin>>,
                               periodo_anterior)

\* a period of several days has been given its prior period
C1_Witness ==
    /\ llamada.op = "obtener_periodos"
    /\ llamada.args = <<1, 3>>
    /\ llamada.res.valor[2] = <<-2, 0>>

\* C2: comparar_metricas returns actual = current, anterior = prior,
\* diferencia = current - prior and variacion_pct = (diferencia / prior) * 100
\* when prior # 0 (stated without division: variacion_pct * prior =
\* diferencia * 100) and exactly 0 when prior = 0; 120 against 100 gives 20
\* and 20; it never divides by zero.
C2_CompararMetricas ==
    llamada.op = "comparar_metricas" =>
        LET actual == llamada.args[1]
            anterior == llamada.args[2]
            r == llamada.res
        IN  /\ r.excepcion = "ninguna"
            /\ r.valor.actual = actual
            /\ r.valor.anterior = anterior
            /\ r.valor.diferencia = actual - anterior
            /\ r.valor.variacion_pct.v[2] > 0
            /\ anterior # 0 =>
                  r.valor.variacion_pct.v[1] * anterior
                      = (actual - anterior) * 100 * r.valor.variacion_pct.v[2]
            /\ anterior = 0 => r.valor.variacion_pct.v = <<0, 1>>
            /\ (actual = 120 /\ anterior = 100) =>
                  /\ r.valor.diferencia = 20
                  /\ r.valor.variacion_pct.v = <<20, 1>>

\* 50 has been compared against a prior value of 0
C2_Witness ==
    /\ llamada.op = "comparar_metricas"
    /\ llamada.args = <<50, 0>>
    /\ llamada.res.excepcion = "ninguna"
    /\ llamada.res.valor.diferencia = 50
    /\ llamada.res.valor.variacion_pct.v = <<0, 1>>

\* the k-th smallest member of the set K of positions (k in 1..|K|)
Enesimo(K, k) == CHOOSE i \in K : Cardinality({j \in K : j < i}) = k - 1

\* salida holds, in their order in base, exactly the rows of base at the
\* positions K, with their labels
EsSeleccion(salida, base, K) ==
    /\ salida.columnas = base.columnas
    /\ Len(salida.filas) = Cardinality(K)
    /\ Len(salida.indice) = Cardinality(K)
    /\ \A j \in 1..Cardinality(K) :
          /\ salida.filas[j] = base.filas[Enesimo(K, j)]
          /\ salida.indice[j] = base.indice[Enesimo(K, j)]

\* a categorical selection that imposes no restriction: the "all" word of
\* its select box, or unset (None or the empty string)
SinRestriccion(sel, todos) ==
    sel.t = "none" \/ (sel.t = "str" /\ sel.v \in {"", todos})

CumpleCategoria(tabla, k, col, sel, todos) ==
    \/ SinRestriccion(sel, todos)
    \/ /\ Columna(tabla, col)[k].t = "str"
       /\ Columna(tabla, col)[k].v = sel.v

\* the positions of the rows of tabla that the selection asks for
FilasPedidas(tabla, inicio, fin, region, canal, id_producto) ==
    {k \in DOMAIN tabla.filas :
        /\ Columna(tabla, n_fecha)[k].t = "fecha"
        /\ inicio <= Columna(tabla, n_fecha)[k].v
        /\ Columna(tabla, n_fecha)[k].v <= fin
        /\ CumpleCategoria(tabla, k, n_region, region, "Todas")
        /\ CumpleCategoria(tabla, k, n_canal, canal, "Todos")
        /\ CumpleCategoria(tabla, k, n_id_producto, id_producto, "Todos")}

\* C3: aplicar(table, selection) returns, in their original order, exactly
\* the rows whose fecha lies in [fecha_inicio, fecha_fin], both bounds
\* included, and that equal the selected region, canal and id_producto for
\* each of the three that is neither the "all" word nor unset (None or the
\* empty string); when no row matches the result is the empty table.  It
\* holds of the current-period call and of the prior-period call.
C3_Aplicar ==
    /\ pc \in {"filtrada", "comparada"} =>
          EsSeleccion(tabla_filtrada, tabla_final,
              FilasPedidas(tabla_final, filtros.fecha_inicio, filtros.fecha_fin,
                           filtros.region, filtros.canal, filtros.id_producto))
    /\ pc = "comparada" =>
          EsSeleccion(tabla_anterior, tabla_final,
              FilasPedidas(tabla_final, periodo_anterior[1], periodo_anterior[2],
                           filtros.region, filtros.canal, filtros.id_producto))

\* a two-row table has been filtered by date, region, canal and producto
\* down to its second row, the one dated fecha_fin
C3_Witness ==
    /\ pc = "filtrada"
    /\ Len(tabla_final.filas) = 2
    /\ filtros.region = Str("Sur")
    /\ filtros.canal = Str("Tienda")
    /\ filtros.fecha_inicio < filtros.fecha_fin
    /\ tabla_filtrada.indice = <<1>>
    /\ Columna(tabla_filtrada, n_fecha)[1] = Fecha(filtros.fecha_fin)

\* a selection that matches no row has given the empty table
C3_WitnessVacia ==
    /\ pc = "filtrada"
    /\ Len(tabla_final.filas) = 2
    /\ tabla_filtrada.filas = <<>>

\* C4: no pipeline stage mutates its input.  Across every step the table
\* the caller handed in (the raw table for normalizar, tabla_normalizada for
\* limpiar, tabla_limpia for transformar, tabla_final for both aplicar
\* calls) and every table obtained earlier keep their rows, columns and
\* values; and the prior-period aplicar returns what it returns on a base
\* table fresh from transformar, on which no aplicar has run.
C4_SinMutacion ==
    [][ /\ tabla_cruda' = tabla_cruda
        /\ pc # "inicio" => tabla_normalizada' = tabla_normalizada
        /\ pc \in {"limpia", "limpia_sin_validar", "transformada", "filtrada",
                   "comparada"} => tabla_limpia' = tabla_limpia
        /\ pc \in {"transformada", "filtrada", "comparada"} =>
              tabla_final' = tabla_final
        /\ pc \in {"filtrada", "comparada"} => tabla_filtrada' = tabla_filtrada
        /\ (pc = "filtrada" /\ pc' = "comparada") =>
              tabla_anterior' =
                  Aplicar(Transformar(tabla_limpia).salida,
                          FiltroSeleccion(periodo_anterior'[1], periodo_anterior'[2],
                                          filtros.region, filtros.canal,
                                          filtros.id_producto)).salida
      ]_vars

\* every stage has run on a two-row table and both aplicar calls on the
\* same base have returned a row
C4_Witness ==
    /\ pc = "comparada"
    /\ Len(tabla_normalizada.filas) = 2
    /\ Len(tabla_final.filas) = 2
    /\ Len(tabla_filtrada.filas) = 1
    /\ Len(tabla_anterior.filas) = 1
    /\ tabla_filtrada # tabla_anterior

\* cargar has called validar
CargaHecha == validacion.excepcion # "pendiente"

\* the table cargar hands to validar
EntradaValidar == Normalizar(tabla_cruda).salida

RequeridasAusentes ==
    LET presentes == Range(EntradaValidar.columnas)
    IN  {c \in Range(columnas_requeridas) : c \notin presentes}

\* C5: when a table within the row ceiling lacks a required column, validar
\* returns es_valido = FALSE with exactly one error, which names exactly the
\* required columns absent from the table (each once), and no warning: no
\* date, numeric or warning check has run.
C5_FaltanColumnas ==
    (CargaHecha /\ Len(tabla_cruda.filas) <= max_filas_csv) =>
       LET ausentes == RequeridasAusentes
       IN  ausentes # {} =>
              /\ validacion.excepcion = "ninguna"
              /\ validacion.valor.es_valido = FALSE
              /\ Len(validacion.valor.errores) = 1
              /\ validacion.valor.errores[1].tipo = "faltantes"
              /\ Range(validacion.valor.errores[1].columnas) = ausentes
              /\ Len(validacion.valor.errores[1].columnas) = Cardinality(ausentes)
              /\ validacion.valor.advertencias = <<>>

\* a table without fecha and costo, with an optional column, text in
\* cantidad and an empty precio has been validated
C5_Witness ==
    /\ CargaHecha
    /\ Len(tabla_cruda.filas) = max_filas_csv
    /\ RequeridasAusentes = {n_fecha, n_costo}
    /\ TieneColumna(EntradaValidar, n_categoria)
    /\ Txt("abc") \in Range(Columna(EntradaValidar, n_cantidad))
    /\ validacion.excepcion = "ninguna"
    /\ validacion.valor.errores[1].columnas = <<n_fecha, n_costo>>

\* C6: when the row count exceeds max_filas_csv validar returns at once
\* es_valido = FALSE with exactly one error, citing the row count and the
\* maximum, and no warning, whatever else is wrong with the table; a table
\* of exactly max_filas_csv rows is not rejected by the size check.
C6_Tamano ==
    CargaHecha =>
       /\ Len(tabla_cruda.filas) > max_filas_csv =>
             validacion =
                 Retorno(ResultadoValidacion(FALSE,
                     <<ErrorTamano(Len(tabla_cruda.filas), max_filas_csv)>>,
                     <<>>))
       /\ Len(tabla_cruda.filas) <= max_filas_csv =>
             \/ validacion.excepcion # "ninguna"
             \/ \A i \in DOMAIN validacion.valor.errores :
                   validacion.valor.errores[i].tipo # "tamano"

\* a table one row above the ceiling that also lacks a required column and
\* holds text in cantidad has been validated
C6_Witness ==
    /\ CargaHecha
    /\ Len(tabla_cruda.filas) = max_filas_csv + 1
    /\ RequeridasAusentes # {}
    /\ Txt("abc") \in Range(Columna(EntradaValidar, n_cantidad))
    /\ validacion.excepcion = "ninguna"
    /\ validacion.valor.errores[1].tipo = "tamano"

\* a table of exactly max_filas_csv rows has been found valid
C6_WitnessTecho ==
    /\ CargaHecha
    /\ Len(tabla_cruda.filas) = max_filas_csv
    /\ validacion.excepcion = "ninguna"
    /\ validacion.valor.es_valido

\* the type errors C7 expects of a table: fecha, cantidad, precio, costo, in
\* that order, one for each column that is not wholly convertible
ErroresDeTipoEsperados(tabla) ==
    SelectIdx(<<ErrorFecha, ErrorNumero(n_cantidad), ErrorNumero(n_precio),
                ErrorNumero(n_costo)>>,
              <<\E c \in Range(Columna(tabla, n_fecha)) :
                    c.t \notin {"fechatxt", "fecha", "nan", "nat"},
                \E c \in Range(Columna(tabla, n_cantidad)) :
                    c.t \notin {"num", "nan"},
                \E c \in Range(Columna(tabla, n_precio)) :
                    c.t \notin {"num", "nan"},
                \E c \in Range(Columna(tabla, n_costo)) :
                    c.t \notin {"num", "nan"}>>,
              1)

\* C7: for a table that passes the size and required-column checks validar
\* returns a result whose errors are, in the order fecha, cantidad, precio,
\* costo, exactly one error for each of those columns that is not wholly
\* convertible; and in every result returned es_valido holds exactly when
\* errores is empty.
C7_ErroresDeTipo ==
    CargaHecha =>
       /\ (Len(tabla_cruda.filas) <= max_filas_csv /\ RequeridasAusentes = {})
             => /\ validacion.excepcion = "ninguna"
                /\ validacion.valor.errores = ErroresDeTipoEsperados(EntradaValidar)
       /\ validacion.excepcion = "ninguna"
             => (validacion.valor.es_valido <=> validacion.valor.errores = <<>>)

\* C8: cargar normalises, then validates; when validar reports es_valido =
\* FALSE it raises ErrorValidacionDatos carrying validar's whole error list
\* in order, and when validar reports es_valido = TRUE it returns the
\* normalised table: the rows and labels read, under the standard names.
\* Stated of the states cargar leaves, before any later stage.
C8_Cargar ==
    (pc \in {"cargada", "error"} /\ CargaHecha /\ validacion.excepcion = "ninguna") =>
       /\ validacion = Validar(EntradaValidar)
       /\ ~validacion.valor.es_valido =>
             /\ pc = "error"
             /\ excepcion = Lanza("ErrorValidacionDatos", validacion.valor.errores)
       /\ validacion.valor.es_valido =>
             /\ pc # "error"
             /\ excepcion = SinExcepcion
             /\ tabla_normalizada.filas = tabla_cruda.filas
             /\ tabla_normalizada.indice = tabla_cruda.indice
             /\ tabla_normalizada.columnas =
                   [i \in DOMAIN tabla_cruda.columnas |->
                       NombreEstandar(tabla_cruda.columnas[i])]

\* a file under alias names has been loaded: two rows, valid once normalised
C8_Witness ==
    /\ pc = "cargada"
    /\ tabla_cruda.columnas # tabla_normalizada.columnas
    /\ TieneRequeridas(tabla_normalizada)
    /\ Len(tabla_normalizada.filas) = 2
    /\ validacion.valor.es_valido

\* a file with an unparseable date has been refused with validar's errors
C8_WitnessError ==
    /\ pc = "error"
    /\ excepcion.excepcion = "ErrorValidacionDatos"
    /\ excepcion.valor = <<ErrorFecha>>

\* C9: validation and cleaning never raise: validar ends by returning a
\* ResultadoValidacion whatever the cells hold, and limpiar ends by
\* returning a table and a ResultadoLimpieza.
C9_NuncaLanzan ==
    /\ CargaHecha => validacion.excepcion = "ninguna"
    /\ pc \in {"limpia", "limpia_sin_validar"} =>
          /\ resultado_limpieza.filas_eliminadas >= 0
          /\ tabla_limpia.columnas = tabla_normalizada.columnas

\* the number a cell of cantidad, precio or costo counts as once cleaned
Valor0(c) == IF c.t = "num" THEN c.v ELSE 0

FechaValida(c) == c.t \in {"fechatxt", "fecha"}

\* the positions of the rows limpiar is to keep
FilasConservadas(tabla) ==
    {k \in DOMAIN tabla.filas :
        /\ FechaValida(Columna(tabla, n_fecha)[k])
        /\ Valor0(Columna(tabla, n_cantidad)[k]) >= 0
        /\ Valor0(Columna(tabla, n_precio)[k]) >= 0
        /\ Valor0(Columna(tabla, n_costo)[k]) >= 0}

\* row k of tabla as limpiar is to return it
FilaLimpia(tabla, k) ==
    [i \in DOMAIN tabla.columnas |->
        IF tabla.columnas[i] = n_fecha THEN Fecha(tabla.filas[k][i].v)
        ELSE IF tabla.columnas[i] \in Range(numericas)
             THEN Num(Valor0(tabla.filas[k][i]))
             ELSE tabla.filas[k][i]]

\* the "replaced by 0" warnings that name col
AvisosReemplazo(col) ==
    {a \in DOMAIN resultado_limpieza.advertencias :
        /\ resultado_limpieza.advertencias[a].tipo = "reemplazados"
        /\ resultado_limpieza.advertencias[a].columna = col}

\* C10: limpiar returns, in original order, exactly the input rows whose
\* fecha is parseable and whose cantidad, precio and costo are all >= 0 once
\* every non-numeric or empty value in them counts as 0 (such a row is kept,
\* with 0 in its place, and one warning naming the column is emitted per
\* column in which a value was replaced); filas_eliminadas is the input row
\* count minus the output row count and is never negative.
C10_Limpiar ==
    pc \in {"limpia", "limpia_sin_validar"} =>
       LET K == FilasConservadas(tabla_normalizada)
       IN  /\ tabla_limpia.columnas = tabla_normalizada.columnas
           /\ Len(tabla_limpia.filas) = Cardinality(K)
           /\ Len(tabla_limpia.indice) = Cardinality(K)
           /\ \A j \in 1..Cardinality(K) :
                 /\ tabla_limpia.filas[j] = FilaLimpia(tabla_normalizada, Enesimo(K, j))
                 /\ tabla_limpia.indice[j] = tabla_normalizada.indice[Enesimo(K, j)]
           /\ \A i \in DOMAIN numericas :
                 Cardinality(AvisosReemplazo(numericas[i])) =
                    IF \E k \in DOMAIN tabla_normalizada.filas :
                          /\ FechaValida(Columna(tabla_normalizada, n_fecha)[k])
                          /\ Columna(tabla_normalizada, numericas[i])[k].t # "num"
                    THEN 1 ELSE 0
           /\ resultado_limpieza.filas_eliminadas =
                 Len(tabla_normalizada.filas) - Len(tabla_limpia.filas)
           /\ resultado_limpieza.filas_eliminadas >= 0
           /\ (/\ Len(tabla_normalizada.filas) = 1
               /\ Columna(tabla_normalizada, n_fecha)[1].t = "fechatxt"
               /\ Columna(tabla_normalizada, n_cantidad)[1] = Num(-5)
               /\ Columna(tabla_normalizada, n_precio)[1] = Num(10)
               /\ Columna(tabla_normalizada, n_costo)[1] = Num(3))
              => /\ tabla_limpia.filas = <<>>
                 /\ resultado_limpieza.filas_eliminadas = 1

\* a row with text in cantidad has been kept with 0 in its place and a
\* warning, beside a row of negative cantidad that has been dropped
C10_Witness ==
    /\ pc = "limpia_sin_validar"
    /\ Len(tabla_normalizada.filas) = 2
    /\ Columna(tabla_normalizada, n_cantidad)[1] = Txt("abc")
    /\ Columna(tabla_normalizada, n_cantidad)[2] = Num(-5)
    /\ Len(tabla_limpia.filas) = 1
    /\ Columna(tabla_limpia, n_cantidad)[1] = Num(0)
    /\ Cardinality(AvisosReemplazo(n_cantidad)) = 1
    /\ resultado_limpieza.filas_eliminadas = 1

\* the table transformar was handed in the run at hand
EntradaTransformar ==
    IF pc = "transformada_sin_limpiar" THEN tabla_normalizada ELSE tabla_limpia

\* what C11 says of row k of the output sal for the input ent
FilaTransformada(ent, sal, k) ==
    LET cantidad == Columna(ent, n_cantidad)[k].v
        precio == Columna(ent, n_precio)[k].v
        costo == Columna(ent, n_costo)[k].v
        ingresos == Columna(sal, n_ingresos)[k]
        costo_total == Columna(sal, n_costo_total)[k]
        margen == Columna(sal, n_margen)[k]
        porcentaje == Columna(sal, n_margen_porcentaje)[k]
    IN  /\ ingresos = Num(cantidad * precio)
        /\ costo_total = Num(cantidad * costo)
        /\ margen = Num(ingresos.v - costo_total.v)
        /\ porcentaje.t = "frac"
        /\ porcentaje.v[2] > 0
        /\ ingresos.v > 0 => porcentaje.v[1] * ingresos.v = margen.v * porcentaje.v[2]
        /\ ingresos.v <= 0 => porcentaje.v = <<0, 1>>
        /\ \A i \in DOMAIN ent.columnas : sal.filas[k][i] = ent.filas[k][i]

\* the documented example: quantity 2, price 10, cost 4
TablaEjemplo ==
    LeerCsv(EncabezadoCanonico,
            <<FilaDatos(Fecha(1), Num(2), Num(10), Num(4),
                        Str("Norte"), Str("Web"), Str("P1"))>>)

\* C11: for every row of its input transformar yields ingresos = cantidad *
\* precio, costo_total = cantidad * costo, margen = ingresos - costo_total and
\* margen_porcentaje = margen / ingresos when ingresos > 0 and exactly 0 when
\* ingresos <= 0 (2, 10, 4 gives 20, 8, 12 and 3/5); nothing is divided by
\* zero, and the rows, their order and labels and every column the input had
\* are unchanged.
C11_Transformar ==
    /\ pc \in {"transformada", "transformada_sin_limpiar"} =>
          /\ Len(tabla_final.filas) = Len(EntradaTransformar.filas)
          /\ tabla_final.indice = EntradaTransformar.indice
          /\ tabla_final.columnas =
                EntradaTransformar.columnas \o
                <<n_ingresos, n_costo_total, n_margen, n_margen_porcentaje>>
          /\ \A k \in DOMAIN EntradaTransformar.filas :
                FilaTransformada(EntradaTransformar, tabla_final, k)
    /\ LET sal == Transformar(TablaEjemplo).salida
       IN  /\ Columna(sal, n_ingresos) = <<Num(20)>>
           /\ Columna(sal, n_costo_total) = <<Num(8)>>
           /\ Columna(sal, n_margen) = <<Num(12)>>
           /\ Columna(sal, n_margen_porcentaje) = <<Frac(3, 5)>>

\* a table with a row of negative revenue and a row of positive revenue has
\* been transformed
C11_Witness ==
    /\ pc = "transformada_sin_limpiar"
    /\ Columna(tabla_final, n_ingresos) = <<Num(-50), Num(6)>>
    /\ Columna(tabla_final, n_margen) = <<Num(-35), Num(4)>>
    /\ Columna(tabla_final, n_margen_porcentaje) = <<Frac(0, 1), Frac(2, 3)>>

\* a cleaned table with a row of revenue 0 has been transformed
C11_WitnessCero ==
    /\ pc = "transformada"
    /\ Num(0) \in Range(Columna(tabla_final, n_ingresos))
    /\ Len(tabla_final.filas) = 2

\* C18 as written: for the current period (15th, 21st) obtener_periodos
\* returns the prior period (7th, 14th), of 7 days, contiguous with the
\* current one, without gap or overlap.
C18_EjemploEscrito ==
    (llamada.op = "obtener_periodos" /\ llamada.args = <<15, 21>>) =>
        /\ llamada.res.valor[2] = <<7, 14>>
        /\ Cardinality(DiasDe(llamada.res.valor[2])) = 7
        /\ llamada.res.valor[2][2] + 1 = 15

\* C18, amended: for the current period (15th, 21st), which spans 7 days,
\* obtener_periodos returns the prior period (8th, 14th), which also spans 7
\* days and is contiguous with the current period, without gap or overlap.
C18_Ejemplo ==
    (llamada.op = "obtener_periodos" /\ llamada.args = <<15, 21>>) =>
        /\ llamada.res.excepcion = "ninguna"
        /\ llamada.res.valor[1] = <<15, 21>>
        /\ Cardinality(DiasDe(llamada.res.valor[1])) = 7
        /\ llamada.res.valor[2] = <<8, 14>>
        /\ Cardinality(DiasDe(llamada.res.valor[2])) = 7
        /\ llamada.res.valor[2][2] + 1 = llamada.res.valor[1][1]
        /\ DiasDe(llamada.res.valor[2]) \cap DiasDe(llamada.res.valor[1]) = {}

\* obtener_periodos has been called with the period of the example
C18_Witness ==
    /\ llamada.op = "obtener_periodos"
    /\ llamada.args = <<15, 21>>
    /\ llamada.res.excepcion = "ninguna"

\* the rows of tabla each drop of limpiar is to remove when the drops run one
\* after the other, each on what the drops before it left
QuitadasPor(tabla, paso) ==
    {k \in DOMAIN tabla.filas :
        LET sin_fecha == ~FechaValida(Columna(tabla, n_fecha)[k])
            cantidad_neg == Valor0(Columna(tabla, n_cantidad)[k]) < 0
            precio_neg == Valor0(Columna(tabla, n_precio)[k]) < 0
            costo_neg == Valor0(Columna(tabla, n_costo)[k]) < 0
        IN  CASE paso = n_fecha -> sin_fecha
              [] paso = n_cantidad -> ~sin_fecha /\ cantidad_neg
              [] paso = n_precio -> ~sin_fecha /\ ~cantidad_neg /\ precio_neg
              [] paso = n_costo ->
                    ~sin_fecha /\ ~cantidad_neg /\ ~precio_neg /\ costo_neg}

\* the 'fueron eliminadas' warnings, in the order emitted
AvisosEliminacion ==
    SelectIdx(resultado_limpieza.advertencias,
              [a \in DOMAIN resultado_limpieza.advertencias |->
                  resultado_limpieza.advertencias[a].tipo
                      \in {"fecha_invalida", "eliminadas"}],
              1)

RECURSIVE SumaConteos(_)
SumaConteos(avisos) ==
    IF avisos = <<>> THEN 0 ELSE Head(avisos).n + SumaConteos(Tail(avisos))

\* C19: the drops of limpiar run in the order fecha, cantidad, precio, costo,
\* each evaluated on the table as the drops before it left it: each 'fueron
\* eliminadas' warning reports the number of rows its step removed (a row
\* with negative precio and negative costo is counted by the precio step
\* only), the warnings come in the order of the steps, and their counts sum
\* to filas_eliminadas.
C19_ConteoSecuencial ==
    pc \in {"limpia", "limpia_sin_validar"} =>
       LET pasos == <<n_fecha, n_cantidad, n_precio, n_costo>>
       IN  /\ AvisosEliminacion =
                 SelectIdx(
                     [i \in DOMAIN pasos |->
                         [tipo |-> IF i = 1 THEN "fecha_invalida" ELSE "eliminadas",
                          columna |-> pasos[i],
                          n |-> Cardinality(QuitadasPor(tabla_normalizada, pasos[i]))]],
                     [i \in DOMAIN pasos |->
                         QuitadasPor(tabla_normalizada, pasos[i]) # {}],
                     1)
           /\ SumaConteos(AvisosEliminacion) = resultado_limpieza.filas_eliminadas

\* normalizar has returned the table now in tabla_normalizada
NormalizarHecho ==
    pc \in {"cargada", "normalizada", "renormalizada", "limpia",
            "limpia_sin_validar", "transformada", "transformada_sin_limpiar",
            "filtrada", "comparada"}

EsCanonico(nombre) ==
    nombre \in Range(columnas_requeridas) \cup Range(columnas_opcionales)

C17_WitnessMayusculas ==
    /\ pc = "normalizada"
    /\ <<"R", "E", "G", "I", "O", "N">> \in Range(tabla_cruda.columnas)
    /\ n_region \in Range(tabla_normalizada.columnas)

InsightsHechos == pc \in {"insights", "pronosticada", "sin_pronostico"}

\* the rule an insight comes from, by its title (0: the 'no data' insight)
Regla(ins) ==
    CASE ins.titulo = t_sin_datos -> 0
      [] ins.titulo \in {t_sin_referencia, t_rendimiento} -> 1
      [] ins.titulo = t_region -> 2
      [] ins.titulo = t_canal -> 3
      [] ins.titulo = t_producto -> 4
      [] ins.titulo = t_concentracion -> 5

\* C12: the list generar returns is either exactly one neutral 'Sin datos'
\* insight, which happens if and only if the current subset is empty, or a
\* subsequence of [revenue trend, leading region, leading channel, leading
\* product, concentration risk] in that relative order, each rule
\* contributing at most one insight; 'Sin datos' never comes with another
\* insight.
C12_OrdenInsights ==
    InsightsHechos =>
       /\ Vacia(tabla_filtrada) <=>
             insights = <<Insight(t_sin_datos, "neutral", None, <<>>)>>
       /\ \A i \in DOMAIN insights :
             insights[i].titulo = t_sin_datos => Len(insights) = 1
       /\ ~Vacia(tabla_filtrada) =>
             /\ \A i \in DOMAIN insights : Regla(insights[i]) \in 1..5
             /\ \A i, j \in DOMAIN insights :
                   i < j => Regla(insights[i]) < Regla(insights[j])

\* all five rules have contributed, in order
C12_Witness ==
    /\ InsightsHechos
    /\ [i \in DOMAIN insights |-> insights[i].titulo] =
          <<t_rendimiento, t_region, t_canal, t_producto, t_concentracion>>

\* an empty selection of a non-empty table has been given the single
\* 'Sin datos' insight
C12_WitnessSinDatos ==
    /\ InsightsHechos
    /\ Vacia(tabla_filtrada)
    /\ ~Vacia(tabla_final)
    /\ Len(insights) = 1

\* a subset without region has been given its insights
C12_WitnessSinRegion ==
    /\ InsightsHechos
    /\ [i \in DOMAIN insights |-> insights[i].titulo] =
          <<t_sin_referencia, t_canal, t_producto, t_concentracion>>

\* the revenue sums generar compares
IngresosActual == Suma(tabla_filtrada, n_ingresos)

IngresosPrevios ==
    IF Vacia(tabla_anterior) THEN 0 ELSE Suma(tabla_anterior, n_ingresos)

\* C13: for a non-empty current subset generar emits exactly one
\* revenue-trend insight, as its first element: the neutral 'no historical
\* reference' insight when the prior revenue sum is 0 (or the prior subset
\* empty) and the current sum is > 0; otherwise the performance insight,
\* positive if the change (current - prior) / prior * 100 is > 0, negative
\* if it is < 0 and neutral if it is 0, the change being 0 when the prior
\* sum is 0.
C13_Tendencia ==
    (InsightsHechos /\ ~Vacia(tabla_filtrada)) =>
       /\ Cardinality({i \in DOMAIN insights : Regla(insights[i]) = 1}) = 1
       /\ Regla(insights[1]) = 1
       /\ (IngresosPrevios = 0 /\ IngresosActual > 0) =>
             /\ insights[1].titulo = t_sin_referencia
             /\ insights[1].tipo = "neutral"
       /\ ~(IngresosPrevios = 0 /\ IngresosActual > 0) =>
             /\ insights[1].titulo = t_rendimiento
             /\ IngresosPrevios = 0 => insights[1].tipo = "neutral"
             /\ IngresosPrevios # 0 =>
                   /\ insights[1].cifras[2].v[1] * IngresosPrevios =
                         (IngresosActual - IngresosPrevios) * 100
                            * insights[1].cifras[2].v[2]
                   /\ insights[1].tipo =
                         CASE (IngresosActual - IngresosPrevios) * IngresosPrevios > 0
                                 -> "positivo"
                           [] (IngresosActual - IngresosPrevios) * IngresosPrevios < 0
                                 -> "negativo"
                           [] OTHER -> "neutral"

\* revenue has grown against a prior period with revenue
C13_Witness ==
    /\ InsightsHechos
    /\ IngresosPrevios = 4
    /\ IngresosActual = 6
    /\ insights[1].titulo = t_rendimiento
    /\ insights[1].tipo = "positivo"
    /\ insights[1].cifras[2] = Frac(50, 1)

\* revenue has fallen to 0
C13_WitnessNegativo ==
    /\ InsightsHechos
    /\ ~Vacia(tabla_filtrada)
    /\ IngresosPrevios > 0
    /\ IngresosActual = 0
    /\ insights[1].tipo = "negativo"

\* revenue is what it was
C13_WitnessIgual ==
    /\ InsightsHechos
    /\ IngresosPrevios = 6
    /\ IngresosActual = 6
    /\ insights[1].titulo = t_rendimiento
    /\ insights[1].tipo = "neutral"

\* no revenue now and none before
C13_WitnessCeroCero ==
    /\ InsightsHechos
    /\ ~Vacia(tabla_filtrada)
    /\ IngresosPrevios = 0
    /\ IngresosActual = 0
    /\ insights[1].titulo = t_rendimiento
    /\ insights[1].tipo = "neutral"

\* revenue without a prior period to compare with
C13_WitnessSinReferencia ==
    /\ InsightsHechos
    /\ IngresosPrevios = 0
    /\ IngresosActual > 0
    /\ insights[1].titulo = t_sin_referencia

\* the revenue of the product that sells most in the current subset
IngresosProductoLider ==
    CHOOSE v \in {SumaGrupo(tabla_filtrada, n_id_producto, p, n_ingresos) :
                     p \in Claves(tabla_filtrada, n_id_producto)} :
        \A p \in Claves(tabla_filtrada, n_id_producto) :
            SumaGrupo(tabla_filtrada, n_id_producto, p, n_ingresos) <= v

HayInsight(titulo) == \E i \in DOMAIN insights : insights[i].titulo = titulo

C14_WitnessUmbral ==
    /\ InsightsHechos
    /\ IngresosActual = 10
    /\ IngresosProductoLider = 6
    /\ HayInsight(t_concentracion)

\* two products of equal revenue: no risk insight
C14_WitnessSinRiesgo ==
    /\ InsightsHechos
    /\ IngresosActual = 12
    /\ IngresosProductoLider = 6
    /\ HayInsight(t_producto)
    /\ ~HayInsight(t_concentracion)

\* a subset without revenue: no risk insight
C14_WitnessSinIngresos ==
    /\ InsightsHechos
    /\ ~Vacia(tabla_filtrada)
    /\ IngresosActual = 0
    /\ HayInsight(t_producto)
    /\ ~HayInsight(t_concentracion)

\* C20: when the current subset has a non-null region generar emits a
\* positive 'leading region' insight naming the region of the largest summed
\* revenue, and the share it reports is that region's revenue divided by the
\* total revenue of the whole current subset (every row, also those whose
\* region is null), 0 when that total is not positive.
C20_RegionLider ==
    (InsightsHechos /\ Claves(tabla_filtrada, n_region) # {}) =>
       \E i \in DOMAIN insights :
          /\ insights[i].titulo = t_region
          /\ insights[i].tipo = "positivo"
          /\ insights[i].sujeto \in Claves(tabla_filtrada, n_region)
          /\ \A r \in Claves(tabla_filtrada, n_region) :
                SumaGrupo(tabla_filtrada, n_region, r, n_ingresos)
                   <= SumaGrupo(tabla_filtrada, n_region, insights[i].sujeto, n_ingresos)
          /\ insights[i].cifras[1] =
                IF IngresosActual > 0
                THEN Frac(SumaGrupo(tabla_filtrada, n_region,
                                    insights[i].sujeto, n_ingresos) * 100,
                          IngresosActual)
                ELSE Frac(0, 1)

\* the forecaster has been called on the current subset
PronosticoHecho == pc = "pronosticada"

\* the distinct dates of the current subset
FechasEntrada == {c.v : c \in Range(Columna(tabla_filtrada, n_fecha))}

UltimaFecha == CHOOSE d \in FechasEntrada : \A e \in FechasEntrada : e <= d

\* C15: for a non-empty input and a horizon h >= 0 entrenar_y_pronosticar
\* returns a table of one 'Real' row per distinct date of the input, in
\* ascending date order and carrying the summed revenue of that date,
\* followed by exactly h forecast rows dated the h consecutive days after
\* the last historical date; no Real row follows a forecast row.
C15_TablaPronostico ==
    (PronosticoHecho /\ ~Vacia(tabla_filtrada)) =>
       IF resultado_pronostico.excepcion # "ninguna" THEN FALSE
       ELSE LET t == resultado_pronostico.valor.tabla
                n == Cardinality(FechasEntrada)
                h == dias_pronostico
            IN  /\ Len(t) = n + h
                /\ \A j \in 1..n :
                      /\ t[j].tipo = t_real
                      /\ t[j].fecha \in FechasEntrada
                      /\ j > 1 => t[j - 1].fecha < t[j].fecha
                      /\ t[j].ingresos =
                            Num(SumaGrupo(tabla_filtrada, n_fecha,
                                          Fecha(t[j].fecha), n_ingresos))
                /\ \A j \in (n + 1)..(n + h) :
                      /\ t[j].tipo = t_pronostico
                      /\ t[j].fecha = UltimaFecha + (j - n)

\* the same for the horizons of at least one day, which the code serves
C15_HorizontePositivo ==
    dias_pronostico >= 1 => C15_TablaPronostico

\* a forecast of two days after one historical day of two sales
C15_WitnessPositivo ==
    /\ PronosticoHecho
    /\ dias_pronostico = 2
    /\ Len(tabla_filtrada.filas) = 2
    /\ Cardinality(FechasEntrada) = 1
    /\ resultado_pronostico.excepcion = "ninguna"
    /\ Len(resultado_pronostico.valor.tabla) = 3

\* a forecast of one day after two historical days
C15_WitnessDosDias ==
    /\ PronosticoHecho
    /\ dias_pronostico = 1
    /\ Cardinality(FechasEntrada) = 2
    /\ resultado_pronostico.excepcion = "ninguna"
    /\ Len(resultado_pronostico.valor.tabla) = 3

\* the call with horizon 0 on a non-empty subset has raised
C15_WitnessCero ==
    /\ PronosticoHecho
    /\ ~Vacia(tabla_filtrada)
    /\ dias_pronostico = 0
    /\ resultado_pronostico = Lanza("ValueError", <<"predict">>)

\* C16: on an empty input entrenar_y_pronosticar raises its own ValueError
\* before it aggregates or fits anything and returns nothing (no table, no
\* model); the error is one the caller catches: the run goes on without a
\* pipeline error.
C16_EntradaVacia ==
    (PronosticoHecho /\ Vacia(tabla_filtrada)) =>
       /\ resultado_pronostico.excepcion = "ValueError"
       /\ resultado_pronostico.valor = <<"No hay datos">>
       /\ excepcion = SinExcepcion

\* the forecaster has been called with a positive horizon on a selection
\* that matches no row of a non-empty table
C16_Witness ==
    /\ PronosticoHecho
    /\ ~Vacia(tabla_final)
    /\ Vacia(tabla_filtrada)
    /\ dias_pronostico = 2
    /\ resultado_pronostico.excepcion = "ValueError"

\* the summed ingresos and margen of a product in the current subset
IngresosProducto(p) == SumaGrupo(tabla_filtrada, n_id_producto, p, n_ingresos)

MargenProducto(p) == SumaGrupo(tabla_filtrada, n_id_producto, p, n_margen)

\* C21: for a non-empty current subset the 'leading product' insight names
\* a product of the largest summed revenue; the margin ratio it reports is
\* summed margin / summed revenue, 0 when the summed revenue is <= 0, and its
\* category is positive if and only if that ratio is at least 15%, negative
\* otherwise: a leading product without revenue is always negative.
C21_ProductoLider ==
    (InsightsHechos /\ ~Vacia(tabla_filtrada)) =>
       LET lider == IngresosProductoLider
       IN  \E i \in DOMAIN insights :
              /\ insights[i].titulo = t_producto
              /\ \A k \in DOMAIN insights :
                    insights[k].titulo = t_producto => k = i
              /\ insights[i].sujeto \in Claves(tabla_filtrada, n_id_producto)
              /\ IngresosProducto(insights[i].sujeto) = lider
              /\ insights[i].cifras[1] = lider
              /\ LET margen == MargenProducto(insights[i].sujeto)
                 IN  /\ insights[i].cifras[2] =
                           IF lider > 0 THEN Frac(margen * 100, lider)
                           ELSE Frac(0, 1)
                     /\ insights[i].tipo \in {"positivo", "negativo"}
                     /\ insights[i].tipo = "positivo" <=>
                           (lider > 0 /\ margen * 100 >= 15 * lider)

\* a leading product at exactly 15% (margin 3 of revenue 20) is positive
C21_Witness ==
    /\ InsightsHechos
    /\ \E i \in DOMAIN insights :
          /\ insights[i].titulo = t_producto
          /\ insights[i].sujeto = Str("P3")
          /\ insights[i].cifras = <<20, Frac(15, 1)>>
          /\ insights[i].tipo = "positivo"

\* a leading product whose margin is 0 of a positive revenue is negative
C21_WitnessMargenCero ==
    /\ InsightsHechos
    /\ \E i \in DOMAIN insights :
          /\ insights[i].titulo = t_producto
          /\ insights[i].cifras = <<6, Frac(0, 1)>>
          /\ insights[i].tipo = "negativo"

\* a leading product without revenue is negative
C21_WitnessSinIngresos ==
    /\ InsightsHechos
    /\ ~Vacia(tabla_filtrada)
    /\ IngresosProductoLider = 0
    /\ \E i \in DOMAIN insights :
          /\ insights[i].titulo = t_producto
          /\ insights[i].tipo = "negativo"

\* two products of equal revenue: either may be named
C21_WitnessEmpate ==
    /\ InsightsHechos
    /\ IngresosProducto(Str("P1")) = 6
    /\ IngresosProducto(Str("P2")) = 6
    /\ \E i \in DOMAIN insights :
          /\ insights[i].titulo = t_producto
          /\ insights[i].sujeto = Str("P2")

\* the j-th smallest date of the current subset
FechaNumero(j) ==
    CHOOSE d \in FechasEntrada :
        Cardinality({e \in FechasEntrada : e < d}) = j - 1

\* the revenue sums of the historical days, in date order
SerieDiaria ==
    [j \in 1..Cardinality(FechasEntrada) |->
        SumaGrupo(tabla_filtrada, n_fecha, Fecha(FechaNumero(j)), n_ingresos)]

\* the sum over the days from j on of the residual of the line coef,
\* intercepto at index j - 1 (times the two denominators), weighted by the
\* index when conPeso
RECURSIVE SumaResiduos(_, _, _, _)
SumaResiduos(serie, modelo, conPeso, j) ==
    IF j > Len(serie) THEN 0
    ELSE (IF conPeso THEN j - 1 ELSE 1)
            * (serie[j] * modelo.coef.v[2] * modelo.intercepto.v[2]
                  - modelo.intercepto.v[1] * modelo.coef.v[2]
                  - modelo.coef.v[1] * modelo.intercepto.v[2] * (j - 1))
         + SumaResiduos(serie, modelo, conPeso, j + 1)

\* the forecaster has returned a result for the current subset
PronosticoDevuelto ==
    /\ PronosticoHecho
    /\ ~Vacia(tabla_filtrada)
    /\ resultado_pronostico.excepcion = "ninguna"

\* C22: the forecaster numbers the n distinct historical days 0 .. n-1 by
\* position, whatever the calendar gaps between them, fits the least-squares
\* line on (index, daily revenue), and gives as k-th forecast value
\* intercept + slope * (n + k - 1), not clamped, on the k-th calendar day
\* after the last observed date: the forecast values depend on the ordered
\* daily sums alone, not on the gaps between the dates.
C22_IndiceOrdinal ==
    PronosticoDevuelto =>
       LET t == resultado_pronostico.valor.tabla
           m == resultado_pronostico.valor.modelo
           n == Len(SerieDiaria)
           h == dias_pronostico
       IN  /\ Len(t) = n + h
           /\ m.coef.v[2] > 0
           /\ m.intercepto.v[2] > 0
           /\ SumaResiduos(SerieDiaria, m, FALSE, 1) = 0
           /\ SumaResiduos(SerieDiaria, m, TRUE, 1) = 0
           /\ n = 1 => m.coef.v[1] = 0
           /\ \A k \in 1..h :
                 /\ t[n + k].fecha = UltimaFecha + k
                 /\ t[n + k].ingresos =
                       Frac(m.intercepto.v[1] * m.coef.v[2]
                               + m.coef.v[1] * (n + k - 1) * m.intercepto.v[2],
                            m.intercepto.v[2] * m.coef.v[2])

\* days 1 and 3 with revenue 14 and 6: the line falls by 8 per index, and the
\* forecasts for days 4 and 5 are the values at indices 2 and 3, below zero
C22_Witness ==
    /\ PronosticoDevuelto
    /\ FechasEntrada = {1, 3}
    /\ SerieDiaria = <<14, 6>>
    /\ dias_pronostico = 2
    /\ resultado_pronostico.valor.modelo.coef = Frac(-8, 1)
    /\ resultado_pronostico.valor.modelo.intercepto = Frac(14, 1)
    /\ resultado_pronostico.valor.tabla[3] =
          [fecha |-> 4, ingresos |-> Frac(-2, 1), tipo |-> t_pronostico]
    /\ resultado_pronostico.valor.tabla[4] =
          [fecha |-> 5, ingresos |-> Frac(-10, 1), tipo |-> t_pronostico]

\* the same revenue on days 1 and 2: the same forecast values, on days 3 and 4
C22_WitnessSinHueco ==
    /\ PronosticoDevuelto
    /\ FechasEntrada = {1, 2}
    /\ SerieDiaria = <<14, 6>>
    /\ dias_pronostico = 2
    /\ resultado_pronostico.valor.tabla[3] =
          [fecha |-> 3, ingresos |-> Frac(-2, 1), tipo |-> t_pronostico]
    /\ resultado_pronostico.valor.tabla[4] =
          [fecha |-> 4, ingresos |-> Frac(-10, 1), tipo |-> t_pronostico]

\* one historical day: a flat line through its revenue
C22_WitnessUnDia ==
    /\ PronosticoDevuelto
    /\ SerieDiaria = <<14>>
    /\ dias_pronostico = 1
    /\ resultado_pronostico.valor.tabla[2].ingresos = Frac(14, 1)

====
